---- MODULE Spec2Model ----
(***************************************************************************)
(* A model of csslsrs: the document store (src/src/store.rs), the          *)
(* folding-range scanner (src/src/features/folding.rs) and the document    *)
(* colors and color presentations (src/src/features/colors.rs).            *)
(*                                                                         *)
(* Texts are sequences of one-character strings.  Every character of the   *)
(* model's alphabet is ASCII, so a character index is a byte offset, as    *)
(* with Rust's char_indices.  Offsets and line numbers are 0-based as in   *)
(* the source; TLA+ sequences are 1-based, so the character at offset o    *)
(* is text[o + 1].  Line numbers are far below 2^32, so the casts to u32   *)
(* of folding.rs change no value and are left out.                         *)
(***************************************************************************)
EXTENDS Integers, Sequences, FiniteSets, TLC

VARIABLES
    \* DocumentStore (store.rs:31-33)
    documents,      \* FxHashMap<Uri, StoreEntry>: a function on the cached URIs
    returned,       \* what the last call returned: a reference to an entry, or ()
    last_call,      \* history: the last call, its argument and the store before it
    rebuilds,       \* history: how many times an index and a tree have been built
    accessed,       \* history: the URIs accessed since their last removal
    calls,          \* history: how many calls have been made
    removed,        \* history: per removed URI, the entry its last removal dropped
    service,        \* LanguageService: "live" until a method takes it by value
    \* compute_folding_ranges (folding.rs:12-172)
    source,         \* document.text
    line_starts,    \* the offsets at which the lines start
    offset,         \* the offset of the next character chars.next() yields
    brace_stack,    \* start lines of the open braces
    comment_stack,  \* start lines of the open comments
    region_stack,   \* start lines of the open regions
    folding_ranges, \* the ranges pushed so far
    total_lines,    \* the last line with content (0 until it is computed)
    pc,             \* "idle", "scan", "unclosed" or "done"
    open_at,        \* history: the offsets of the open braces and comments
    same_line,      \* history: the pairs that opened and closed on one line
    scan_end,       \* history: the stacks and ranges when the scan loop ended
    closed,         \* history: the comment closed last and what its close did
    \* get_document_colors (colors.rs:21-100, 180-188)
    css_tree,       \* store_entry.css_tree: the text and the nodes of the tree
    css_line_index, \* store_entry.line_index
    frames,         \* the calls of extract_colors_information in progress
    document_colors, \* the colors get_document_colors returned
    color_pc,       \* "idle", "walk" or "done"
    looked,         \* history: the children for_each has taken, in order
    handed,         \* history: the texts handed to the parser and to the table
    \* get_color_presentations (colors.rs:102-177, 190-196)
    request,        \* history: the color and the range of the call, once made
    presentations   \* the presentations the call returned

storeVars ==
    <<documents, returned, last_call, rebuilds, accessed, calls, removed, service>>

foldVars == <<source, line_starts, offset, brace_stack, comment_stack, region_stack,
              folding_ranges, total_lines, pc, open_at, same_line, scan_end, closed>>

colorVars == <<css_tree, css_line_index, frames, document_colors, color_pc, looked,
               handed>>

presentVars == <<request, presentations>>

vars == <<storeVars, foldVars, colorVars, presentVars>>

(***************************************************************************)
(* Bounds                                                                  *)
(***************************************************************************)
MaxVersion == 2
MaxCalls == 4
MaxChars == 6
MaxPieces == 4
MaxMarkerPieces == 5
MaxValues == 2
MaxLiveChars == 5
MaxLivePieces == 3
MaxBreakChars == 4

(***************************************************************************)
(* Generic helpers                                                         *)
(***************************************************************************)
Last(seq) == seq[Len(seq)]

Front(seq) == SubSeq(seq, 1, Len(seq) - 1)

SeqsUpTo(S, n) == UNION {[1..k -> S] : k \in 0..n}

RECURSIVE Flatten(_)
Flatten(seqs) == IF seqs = <<>> THEN <<>> ELSE Head(seqs) \o Flatten(Tail(seqs))

RECURSIVE NewlineEnds(_, _)
\* The offsets just after every "\n" of text, from 1-based index i on, ascending.
NewlineEnds(text, i) ==
    IF i > Len(text) THEN <<>>
    ELSE (IF text[i] = "\n" THEN <<i>> ELSE <<>>) \o NewlineEnds(text, i + 1)

(***************************************************************************)
(* The document store                                                      *)
(***************************************************************************)
Uris == {"file:///a.css", "file:///b.css"}
Versions == 1..MaxVersion
StoreTexts == {<<>>, <<"a">>, <<"a", "\n", "b">>}

\* lsp_types::TextDocumentItem
TextDocumentItem(uri, version, text) ==
    [uri |-> uri, language_id |-> "css", version |-> version, text |-> text]

Documents ==
    {TextDocumentItem(u, v, t) : u \in Uris, v \in Versions, t \in StoreTexts}

\* LineIndex::new: offset 0, then the offset just after every line terminator.
LineIndexNew(text) == [line_starts |-> <<0>> \o NewlineEnds(text, 1)]

\* parse_css: the external parser; the tree is opaque here, a root spanning
\* the text it was parsed from.
ParseCss(text) == [kind |-> "CSS_ROOT", range |-> <<0, Len(text)>>, text |-> text]

StoreEntryNew(document, line_index, parsed_css) ==
    [document |-> document, line_index |-> line_index, css_tree |-> parsed_css]

\* Entry::Vacant / Entry::Occupied for the entry of uri
IsVacant(docs, uri) == uri \notin DOMAIN docs

\* The Vacant arm: build the index and the tree from the text, insert.
InsertStale(docs, document) ==
    (document.uri :> StoreEntryNew(document, LineIndexNew(<<>>), ParseCss(<<>>))) @@ docs

InsertEvicting(docs, document) ==
    document.uri :>
        StoreEntryNew(document, LineIndexNew(document.text), ParseCss(document.text))

InsertVacant(docs, document) ==
    (document.uri :>
        StoreEntryNew(document, LineIndexNew(document.text), ParseCss(document.text)))
    @@ docs

\* The test of the Occupied arm.
TextChanged(document, entry) == document.text # entry.document.text

VersionNewer(document, entry) == document.version > entry.document.version

VersionAlwaysChanged(document, entry) == TRUE

VersionChanged(document, entry) == document.version # entry.document.version

\* The three assignments of the Occupied arm, in order.
ReplaceDocumentOnly(entry, document) ==
    [entry EXCEPT !.document = document]

ReplaceDocumentAndIndex(entry, document) ==
    LET e1 == [entry EXCEPT !.document = document]
    IN  [e1 EXCEPT !.line_index = LineIndexNew(e1.document.text)]

ReplaceEntry(entry, document) ==
    LET e1 == [entry EXCEPT !.document = document]
        e2 == [e1 EXCEPT !.line_index = LineIndexNew(e1.document.text)]
        e3 == [e2 EXCEPT !.css_tree = ParseCss(e2.document.text)]
    IN  e3

\* HashMap::remove
RemoveAll(docs, uri) == [u \in {} |-> docs[u]]

RemoveNothing(docs, uri) == docs

RemoveKey(docs, uri) == [u \in (DOMAIN docs) \ {uri} |-> docs[u]]

Called(op, arg) ==
    /\ calls < MaxCalls
    /\ calls' = calls + 1
    /\ last_call' = [op |-> op, arg |-> arg, before |-> documents,
                     rebuilds_before |-> rebuilds]
    /\ accessed' = IF op = "remove" THEN accessed \ {arg} ELSE accessed \cup {arg.uri}
    /\ removed' = IF op = "remove"
                  THEN (arg :> IF arg \in DOMAIN documents
                               THEN <<documents[arg]>> ELSE <<>>) @@ removed
                  ELSE removed

GetVacant(document) ==
    /\ IsVacant(documents, document.uri)
    /\ documents' = InsertVacant(documents, document)
    /\ rebuilds' = rebuilds + 1

GetOccupied(document) ==
    /\ ~IsVacant(documents, document.uri)
    /\ IF VersionChanged(document, documents[document.uri])
       THEN /\ documents' = [documents EXCEPT
                                ![document.uri] = ReplaceEntry(@, document)]
            /\ rebuilds' = rebuilds + 1
       ELSE UNCHANGED <<documents, rebuilds>>

GetOrUpdateDocument(document) ==
    /\ Called("get_or_update_document", document)
    /\ \/ GetVacant(document)
       \/ GetOccupied(document)
    /\ returned' = [kind |-> "entry", key |-> document.uri]
    /\ UNCHANGED service
    /\ UNCHANGED <<foldVars, colorVars, presentVars>>

Remove(uri) ==
    /\ Called("remove", uri)
    /\ documents' = RemoveKey(documents, uri)
    /\ returned' = [kind |-> "unit"]
    /\ UNCHANGED <<rebuilds, service>>
    /\ UNCHANGED <<foldVars, colorVars, presentVars>>

\* DocumentStore::new
StoreInit ==
    /\ documents = <<>>
    /\ returned = [kind |-> "unit"]
    /\ last_call = [op |-> "new", arg |-> "none", before |-> <<>>, rebuilds_before |-> 0]
    /\ rebuilds = 0
    /\ accessed = {}
    /\ calls = 0
    /\ removed = <<>>
    /\ service = "live"

StoreNext ==
    \/ \E document \in Documents : GetOrUpdateDocument(document)
    \/ \E uri \in Uris : Remove(uri)

(***************************************************************************)
(* The folding-range scanner                                               *)
(***************************************************************************)
RegionMarker == <<"#", "r", "e", "g", "i", "o", "n">>

EndRegionMarker == <<"#", "e", "n", "d", "r", "e", "g", "i", "o", "n">>

CommentOpen == <<"/", "*">>

CommentClose == <<"*", "/">>

\* The input texts: every text of at most MaxChars characters that matter to
\* the scanner, every text of at most MaxPieces pieces, a piece being a
\* delimiter, a line break or a marker word, and every text of at most
\* MaxMarkerPieces braces, line breaks and whole marker comments,
\* and every text of at most MaxBreakChars braces, "\n" and "\r".
Chars == {"{", "}", "/", "*", "\n"}

Pieces ==
    {<<"{">>, <<"}">>, <<"\n">>, CommentOpen, CommentClose,
     RegionMarker, EndRegionMarker}

\* The pieces of texts that nest regions and brace blocks.
MarkerPieces ==
    {<<"{">>, <<"}">>, <<"\n">>,
     CommentOpen \o RegionMarker \o CommentClose,
     CommentOpen \o EndRegionMarker \o CommentClose}

\* The characters of texts with both kinds of line-break characters.
BreakChars == {"{", "}", "\n", "\r"}

FoldTexts ==
    SeqsUpTo(Chars, MaxChars)
        \cup {Flatten(ps) : ps \in SeqsUpTo(Pieces, MaxPieces)}
        \cup {Flatten(ps) : ps \in SeqsUpTo(MarkerPieces, MaxMarkerPieces)}
        \cup SeqsUpTo(BreakChars, MaxBreakChars)

\* str::contains
Contains(haystack, needle) ==
    \E i \in 0..(Len(haystack) - Len(needle)) :
        \A k \in 1..Len(needle) : haystack[i + k] = needle[k]

\* str::ends_with('\n')
EndsWithNewline(text) == Len(text) > 0 /\ text[Len(text)] = "\n"

LineStartsAtAnyBreak(text) ==
    LET IsBreak(i) == text[i] \in {"\n", "\r"}
    IN  <<0>> \o SelectSeq([i \in 1..Len(text) |-> i], IsBreak)

\* once(0).chain(match_indices('\n').map(idx + 1))
LineStarts(text) == <<0>> \o NewlineEnds(text, 1)

\* slice::partition_point(|&line_start| line_start <= o): the index of the
\* first element that fails the test, the length when none does.
PartitionPoint(starts, o) ==
    IF \A i \in 1..Len(starts) : starts[i] <= o
    THEN Len(starts)
    ELSE (CHOOSE i \in 1..Len(starts) :
              /\ ~(starts[i] <= o)
              /\ \A j \in 1..(i - 1) : starts[j] <= o) - 1

SaturatingSub(a, b) == IF a >= b THEN a - b ELSE 0

LineNumber(starts, o) == SaturatingSub(PartitionPoint(starts, o), 1)

FoldingRange(start_line, end_line, kind) ==
    [start_line |-> start_line, end_line |-> end_line, kind |-> kind]

\* chars.peek() yields next_char
PeekIs(text, o, next_char) == o + 1 < Len(text) /\ text[o + 2] = next_char

\* The scanner's state while it reads the character at s.offset.
ScanState(o, braces, comments, regions, ranges) ==
    [offset |-> o, brace_stack |-> braces, comment_stack |-> comments,
     region_stack |-> regions, folding_ranges |-> ranges]

\* '{'
OnOpenBraceOutsideComment(starts, s) ==
    IF s.comment_stack # <<>>
    THEN [s EXCEPT !.offset = @ + 1]
    ELSE [s EXCEPT !.offset = @ + 1,
                   !.brace_stack = Append(@, LineNumber(starts, s.offset))]

OnOpenBrace(starts, s) ==
    [s EXCEPT !.offset = @ + 1,
              !.brace_stack = Append(@, LineNumber(starts, s.offset))]

\* '}'
OnCloseBraceAlways(starts, s) ==
    IF s.brace_stack = <<>>
    THEN [s EXCEPT !.offset = @ + 1]
    ELSE [s EXCEPT !.offset = @ + 1,
                   !.brace_stack = Front(@),
                   !.folding_ranges =
                       Append(@, FoldingRange(Last(s.brace_stack),
                                              LineNumber(starts, s.offset), "None"))]

OnCloseBracePrepend(starts, s) ==
    IF s.brace_stack = <<>>
    THEN [s EXCEPT !.offset = @ + 1]
    ELSE [s EXCEPT !.offset = @ + 1,
                   !.brace_stack = Front(@),
                   !.folding_ranges =
                       IF Last(s.brace_stack) # LineNumber(starts, s.offset)
                       THEN <<FoldingRange(Last(s.brace_stack),
                                           LineNumber(starts, s.offset), "None")>> \o @
                       ELSE @]

OnCloseBraceFifo(starts, s) ==
    IF s.brace_stack = <<>>
    THEN [s EXCEPT !.offset = @ + 1]
    ELSE LET start_line == Head(s.brace_stack)
             end_line == LineNumber(starts, s.offset)
         IN  [s EXCEPT !.offset = @ + 1,
                       !.brace_stack = Tail(@),
                       !.folding_ranges =
                           IF start_line # end_line
                           THEN Append(@, FoldingRange(start_line, end_line, "None"))
                           ELSE @]

OnCloseBrace(starts, s) ==
    IF s.brace_stack = <<>>
    THEN [s EXCEPT !.offset = @ + 1]
    ELSE LET start_line == Last(s.brace_stack)
             end_line == LineNumber(starts, s.offset)
         IN  [s EXCEPT !.offset = @ + 1,
                       !.brace_stack = Front(@),
                       !.folding_ranges =
                           IF start_line # end_line
                           THEN Append(@, FoldingRange(start_line, end_line, "None"))
                           ELSE @]

\* '/'
OnSlashAlways(text, starts, s) ==
    [s EXCEPT !.offset = @ + 1,
              !.comment_stack = Append(@, LineNumber(starts, s.offset))]

OnSlashOneChar(text, starts, s) ==
    IF PeekIs(text, s.offset, "*")
    THEN [s EXCEPT !.offset = @ + 1,
                   !.comment_stack = Append(@, LineNumber(starts, s.offset))]
    ELSE [s EXCEPT !.offset = @ + 1]

OnSlash(text, starts, s) ==
    IF PeekIs(text, s.offset, "*")
    THEN [s EXCEPT !.offset = @ + 2,
                   !.comment_stack = Append(@, LineNumber(starts, s.offset))]
    ELSE [s EXCEPT !.offset = @ + 1]

\* The text the closing comment is classified by: from the start of its
\* start line to the end of its end line.
CommentContent(text, starts, start_line, end_line) ==
    LET end_offset == IF end_line + 1 < Len(starts)
                      THEN starts[end_line + 2]
                      ELSE Len(text)
    IN  SubSeq(text, starts[start_line + 1] + 1, end_offset)

\* "*/" with a comment open: s is the state after the pop.
OnCommentClosedWholeMatch(text, starts, s, start_line, end_line) ==
    LET comment_content == CommentContent(text, starts, start_line, end_line)
    IN  IF comment_content = CommentOpen \o RegionMarker \o CommentClose
        THEN [s EXCEPT !.region_stack = Append(@, start_line)]
        ELSE IF start_line # end_line
        THEN [s EXCEPT !.folding_ranges =
                           Append(@, FoldingRange(start_line, end_line, "Comment"))]
        ELSE s

OnCommentClosedFifo(text, starts, s, start_line, end_line) ==
    LET comment_content == CommentContent(text, starts, start_line, end_line)
    IN  IF Contains(comment_content, RegionMarker)
        THEN [s EXCEPT !.region_stack = Append(@, start_line)]
        ELSE IF Contains(comment_content, EndRegionMarker) /\ s.region_stack # <<>>
        THEN [s EXCEPT !.region_stack = Tail(@),
                       !.folding_ranges =
                           Append(@, FoldingRange(Head(s.region_stack),
                                                  end_line, "Region"))]
        ELSE s

OnCommentClosedDedup(text, starts, s, start_line, end_line) ==
    LET comment_content == CommentContent(text, starts, start_line, end_line)
        SameSpan(range) ==
            \E i \in 1..Len(s.folding_ranges) :
                /\ s.folding_ranges[i].start_line = range.start_line
                /\ s.folding_ranges[i].end_line = range.end_line
        Push(range) ==
            IF SameSpan(range) THEN s
            ELSE [s EXCEPT !.folding_ranges = Append(@, range)]
    IN  IF Contains(comment_content, RegionMarker)
        THEN [s EXCEPT !.region_stack = Append(@, start_line)]
        ELSE IF Contains(comment_content, EndRegionMarker)
        THEN IF s.region_stack = <<>>
             THEN s
             ELSE [Push(FoldingRange(Last(s.region_stack), end_line, "Region"))
                       EXCEPT !.region_stack = Front(@)]
        ELSE IF start_line # end_line
        THEN Push(FoldingRange(start_line, end_line, "Comment"))
        ELSE s

OnCommentClosedEndRegionFirst(text, starts, s, start_line, end_line) ==
    LET comment_content == CommentContent(text, starts, start_line, end_line)
    IN  IF Contains(comment_content, EndRegionMarker)
        THEN IF s.region_stack = <<>>
             THEN s
             ELSE [s EXCEPT !.region_stack = Front(@),
                            !.folding_ranges =
                                Append(@, FoldingRange(Last(s.region_stack),
                                                       end_line, "Region"))]
        ELSE IF Contains(comment_content, RegionMarker)
        THEN [s EXCEPT !.region_stack = Append(@, start_line)]
        ELSE IF start_line # end_line
        THEN [s EXCEPT !.folding_ranges =
                           Append(@, FoldingRange(start_line, end_line, "Comment"))]
        ELSE s

OnCommentClosed(text, starts, s, start_line, end_line) ==
    LET comment_content == CommentContent(text, starts, start_line, end_line)
    IN  IF Contains(comment_content, RegionMarker)
        THEN [s EXCEPT !.region_stack = Append(@, start_line)]
        ELSE IF Contains(comment_content, EndRegionMarker)
        THEN IF s.region_stack = <<>>
             THEN s
             ELSE [s EXCEPT !.region_stack = Front(@),
                            !.folding_ranges =
                                Append(@, FoldingRange(Last(s.region_stack),
                                                       end_line, "Region"))]
        ELSE IF start_line # end_line
        THEN [s EXCEPT !.folding_ranges =
                           Append(@, FoldingRange(start_line, end_line, "Comment"))]
        ELSE s

\* '*'
OnStarAlwaysCloses(text, starts, s) ==
    IF PeekIs(text, s.offset, "/")
    THEN OnCommentClosed(text, starts,
                         [s EXCEPT !.offset = @ + 2,
                                   !.comment_stack = IF @ = <<>> THEN <<>> ELSE Front(@)],
                         IF s.comment_stack = <<>> THEN 0 ELSE Last(s.comment_stack),
                         LineNumber(starts, s.offset))
    ELSE [s EXCEPT !.offset = @ + 1]

OnStar(text, starts, s) ==
    IF PeekIs(text, s.offset, "/")
    THEN IF s.comment_stack = <<>>
         THEN [s EXCEPT !.offset = @ + 2]
         ELSE OnCommentClosed(text, starts,
                              [s EXCEPT !.offset = @ + 2, !.comment_stack = Front(@)],
                              Last(s.comment_stack), LineNumber(starts, s.offset))
    ELSE [s EXCEPT !.offset = @ + 1]

\* _ => {}
OnOtherStuck(s) == s

OnOther(s) == [s EXCEPT !.offset = @ + 1]

\* One iteration of the while loop.
ScanStep(text, starts, s) ==
    LET c == text[s.offset + 1]
    IN  CASE c = "{" -> OnOpenBrace(starts, s)
          [] c = "}" -> OnCloseBrace(starts, s)
          [] c = "/" -> OnSlash(text, starts, s)
          [] c = "*" -> OnStar(text, starts, s)
          [] OTHER -> OnOther(s)

RECURSIVE ScanLoop(_, _, _)
ScanLoop(text, starts, s) ==
    IF s.offset >= Len(text) THEN s ELSE ScanLoop(text, starts, ScanStep(text, starts, s))

\* The last line with content.
TotalLinesUntrimmed(text, starts) == Len(starts) - 1

TotalLinesTrimmedAlways(text, starts) ==
    LET lines == Len(starts) - 1
    IN  IF lines > 0 THEN lines - 1 ELSE lines

TotalLines(text, starts) ==
    LET lines == Len(starts) - 1
    IN  IF EndsWithNewline(text) /\ lines > 0 THEN lines - 1 ELSE lines

\* One iteration of each of the three loops over what is still open.
DropUnclosedBlock(last_line, s) == [s EXCEPT !.brace_stack = Front(@)]

OnUnclosedBlockOutermostFirst(last_line, s) ==
    LET start_line == Head(s.brace_stack)
    IN  [s EXCEPT !.brace_stack = Tail(@),
                  !.folding_ranges =
                      IF start_line < last_line
                      THEN Append(@, FoldingRange(start_line, last_line, "None"))
                      ELSE @]

OnUnclosedBlock(last_line, s) ==
    LET start_line == Last(s.brace_stack)
    IN  [s EXCEPT !.brace_stack = Front(@),
                  !.folding_ranges =
                      IF start_line < last_line
                      THEN Append(@, FoldingRange(start_line, last_line, "None"))
                      ELSE @]

OnUnclosedCommentAlways(last_line, s) ==
    [s EXCEPT !.comment_stack = Front(@),
              !.folding_ranges =
                  Append(@, FoldingRange(Last(s.comment_stack), last_line, "Comment"))]

OnUnclosedComment(last_line, s) ==
    LET start_line == Last(s.comment_stack)
    IN  [s EXCEPT !.comment_stack = Front(@),
                  !.folding_ranges =
                      IF start_line < last_line
                      THEN Append(@, FoldingRange(start_line, last_line, "Comment"))
                      ELSE @]

OnUnclosedRegion(last_line, s) ==
    LET region_start == Last(s.region_stack)
    IN  [s EXCEPT !.region_stack = Front(@),
                  !.folding_ranges =
                      IF region_start < last_line
                      THEN Append(@, FoldingRange(region_start, last_line, "Region"))
                      ELSE @]

RECURSIVE UnclosedLoop(_, _)
UnclosedLoop(last_line, s) ==
    IF s.brace_stack # <<>> THEN UnclosedLoop(last_line, OnUnclosedBlock(last_line, s))
    ELSE IF s.comment_stack # <<>>
    THEN UnclosedLoop(last_line, OnUnclosedComment(last_line, s))
    ELSE IF s.region_stack # <<>>
    THEN UnclosedLoop(last_line, OnUnclosedRegion(last_line, s))
    ELSE s

\* compute_folding_ranges as a function of the text.
ComputeFoldingRanges(text) ==
    LET starts == LineStarts(text)
        scanned == ScanLoop(text, starts, ScanState(0, <<>>, <<>>, <<>>, <<>>))
    IN  UnclosedLoop(TotalLines(text, starts), scanned).folding_ranges

\* The scanner's variables as one state, and their next values.
Scanner == ScanState(offset, brace_stack, comment_stack, region_stack, folding_ranges)

Becomes(s) ==
    /\ offset' = s.offset
    /\ brace_stack' = s.brace_stack
    /\ comment_stack' = s.comment_stack
    /\ region_stack' = s.region_stack
    /\ folding_ranges' = s.folding_ranges

\* The character chars.next() yields.
Reads(c) == pc = "scan" /\ offset < Len(source) /\ source[offset + 1] = c

\* History: a pair closed at the current offset; it is recorded when it
\* opened on the line it closes on.
Paired(kind, opened_at, start_line, s) ==
    LET end_line == LineNumber(line_starts, offset)
    IN  same_line' =
            IF start_line = end_line
            THEN Append(same_line,
                        [kind |-> kind, open |-> opened_at, close |-> offset,
                         line |-> end_line,
                         emitted |-> Len(s.folding_ranges) - Len(folding_ranges)])
            ELSE same_line

\* History: the comment closed last, the n-th of the scan, with the offset
\* just after its "*/" and the region stack and the ranges before its close.
CommentClosed(n, start_line, end_line, before, after) ==
    [n |-> n, start_line |-> start_line, end_line |-> end_line, at |-> after.offset,
     regions_before |-> before.region_stack, ranges_before |-> before.folding_ranges]

ScanOpenBrace ==
    /\ Reads("{")
    /\ Becomes(OnOpenBrace(line_starts, Scanner))
    /\ open_at' = [open_at EXCEPT !.brace = Append(@, offset)]
    /\ UNCHANGED <<storeVars, colorVars, presentVars>>
    /\ UNCHANGED <<closed, source, line_starts, total_lines, pc, same_line, scan_end>>

ScanCloseBrace ==
    /\ Reads("}")
    /\ LET s == OnCloseBrace(line_starts, Scanner)
       IN  /\ Becomes(s)
           /\ IF brace_stack = <<>>
              THEN UNCHANGED <<open_at, same_line>>
              ELSE /\ open_at' = [open_at EXCEPT !.brace = Front(@)]
                   /\ Paired("brace", Last(open_at.brace), Last(brace_stack), s)
    /\ UNCHANGED <<storeVars, colorVars, presentVars>>
    /\ UNCHANGED <<closed, source, line_starts, total_lines, pc, scan_end>>

ScanSlash ==
    /\ Reads("/")
    /\ LET s == OnSlash(source, line_starts, Scanner)
       IN  /\ Becomes(s)
           /\ open_at' = IF Len(s.comment_stack) > Len(comment_stack)
                         THEN [open_at EXCEPT !.comment = Append(@, offset)]
                         ELSE open_at
    /\ UNCHANGED <<storeVars, colorVars, presentVars>>
    /\ UNCHANGED <<closed, source, line_starts, total_lines, pc, same_line, scan_end>>

ScanStar ==
    /\ Reads("*")
    /\ LET s == OnStar(source, line_starts, Scanner)
       IN  /\ Becomes(s)
           /\ IF Len(s.comment_stack) < Len(comment_stack)
              THEN /\ open_at' = [open_at EXCEPT !.comment = Front(@)]
                   /\ Paired("comment", Last(open_at.comment), Last(comment_stack), s)
                   /\ closed' = CommentClosed(closed.n + 1, Last(comment_stack),
                                              LineNumber(line_starts, offset),
                                              Scanner, s)
              ELSE UNCHANGED <<open_at, same_line, closed>>
    /\ UNCHANGED <<storeVars, colorVars, presentVars>>
    /\ UNCHANGED <<source, line_starts, total_lines, pc, scan_end>>

ScanOther ==
    /\ pc = "scan" /\ offset < Len(source)
    /\ source[offset + 1] \notin {"{", "}", "/", "*"}
    /\ Becomes(OnOther(Scanner))
    /\ UNCHANGED <<storeVars, colorVars, presentVars>>
    /\ UNCHANGED <<closed, source, line_starts, total_lines, pc, open_at, same_line, scan_end>>

\* chars.next() yields None: the last line with content is computed.
EndOfScan ==
    /\ pc = "scan" /\ offset >= Len(source)
    /\ total_lines' = TotalLines(source, line_starts)
    /\ pc' = "unclosed"
    /\ scan_end' = Scanner
    /\ UNCHANGED <<storeVars, colorVars, presentVars>>
    /\ UNCHANGED <<closed, source, line_starts, offset, brace_stack, comment_stack,
                   region_stack, folding_ranges, open_at, same_line>>

UnclosedBlock ==
    /\ pc = "unclosed" /\ brace_stack # <<>>
    /\ Becomes(OnUnclosedBlock(total_lines, Scanner))
    /\ UNCHANGED <<storeVars, colorVars, presentVars>>
    /\ UNCHANGED <<closed, source, line_starts, total_lines, pc, open_at, same_line, scan_end>>

UnclosedComment ==
    /\ pc = "unclosed" /\ brace_stack = <<>> /\ comment_stack # <<>>
    /\ Becomes(OnUnclosedComment(total_lines, Scanner))
    /\ UNCHANGED <<storeVars, colorVars, presentVars>>
    /\ UNCHANGED <<closed, source, line_starts, total_lines, pc, open_at, same_line, scan_end>>

UnclosedRegion ==
    /\ pc = "unclosed" /\ brace_stack = <<>> /\ comment_stack = <<>>
    /\ region_stack # <<>>
    /\ Becomes(OnUnclosedRegion(total_lines, Scanner))
    /\ UNCHANGED <<storeVars, colorVars, presentVars>>
    /\ UNCHANGED <<closed, source, line_starts, total_lines, pc, open_at, same_line, scan_end>>

\* folding_ranges is returned.
Return ==
    /\ pc = "unclosed" /\ brace_stack = <<>> /\ comment_stack = <<>>
    /\ region_stack = <<>>
    /\ pc' = "done"
    /\ UNCHANGED <<storeVars, colorVars, presentVars>>
    /\ UNCHANGED <<closed, source, line_starts, offset, brace_stack, comment_stack,
                   region_stack, folding_ranges, total_lines, open_at, same_line,
                   scan_end>>

\* compute_folding_ranges is entered with the text `text`.
FoldEnter(text) ==
    /\ source = text
    /\ line_starts = LineStarts(text)
    /\ offset = 0
    /\ brace_stack = <<>>
    /\ comment_stack = <<>>
    /\ region_stack = <<>>
    /\ folding_ranges = <<>>
    /\ total_lines = 0
    /\ open_at = [brace |-> <<>>, comment |-> <<>>]
    /\ same_line = <<>>
    /\ scan_end = ScanState(0, <<>>, <<>>, <<>>, <<>>)
    /\ closed = CommentClosed(0, 0, 0, ScanState(0, <<>>, <<>>, <<>>, <<>>),
                              ScanState(0, <<>>, <<>>, <<>>, <<>>))

FoldIdle == FoldEnter(<<>>) /\ pc = "idle"

FoldInit == (\E text \in FoldTexts : FoldEnter(text)) /\ pc = "scan"

FoldNext ==
    \/ ScanOpenBrace
    \/ ScanCloseBrace
    \/ ScanSlash
    \/ ScanStar
    \/ ScanOther
    \/ EndOfScan
    \/ UnclosedBlock
    \/ UnclosedComment
    \/ UnclosedRegion
    \/ Return

(***************************************************************************)
(* Document colors (src/src/features/colors.rs)                            *)
(*                                                                         *)
(* A syntax tree is a table of nodes in pre-order: node 1 is the root, a   *)
(* node holds its kind, its text range as two offsets into the document    *)
(* text, and the index of its parent (0 for the root).  The text of a node *)
(* is the text of its range.  No node of the model's trees carries trivia. *)
(***************************************************************************)
SyntaxNode(kind, start, end, parent) ==
    [kind |-> kind, start |-> start, end |-> end, parent |-> parent]

\* A piece of a document with the nodes that cover it: offsets count from
\* the start of the piece, node 1 covers the piece.
Token(kind, word) ==
    [text |-> word, nodes |-> <<SyntaxNode(kind, 0, Len(word), 0)>>]

\* The nodes of a piece placed at offset `by` under the node at index 1, after
\* `before` other nodes.
Placed(nodes, by, before) ==
    [i \in 1..Len(nodes) |->
        [nodes[i] EXCEPT !.start = @ + by, !.end = @ + by,
                         !.parent = IF @ = 0 THEN 1 ELSE @ + before]]

RECURSIVE Joined(_, _, _)
Joined(parts, separator, acc) ==
    IF parts = <<>> THEN acc
    ELSE LET lead == IF Len(acc.nodes) = 1 THEN <<>> ELSE separator
             at == Len(acc.text) + Len(lead)
         IN  Joined(Tail(parts), separator,
                    [text |-> acc.text \o lead \o Head(parts).text,
                     nodes |-> acc.nodes \o Placed(Head(parts).nodes, at, Len(acc.nodes))])

\* A node of kind `kind` whose children are the pieces `parts`, written
\* between `open` and `close` with `separator` between them.
Branch(kind, open, parts, separator, close) ==
    LET inner == Joined(parts, separator,
                        [text |-> open, nodes |-> <<SyntaxNode(kind, 0, 0, 0)>>])
        text == inner.text \o close
    IN  [text |-> text,
         nodes |-> <<SyntaxNode(kind, 0, Len(text), 0)>> \o Tail(inner.nodes)]

Identifier(word) == Token("CSS_IDENTIFIER", word)

HexColor(word) == Token("CSS_COLOR", word)

Number(word) == Token("CSS_NUMBER", word)

\* One argument of a function: one value, or values separated by a space.
Parameter(values) == Branch("CSS_PARAMETER", <<>>, values, <<" ">>, <<>>)

\* name(parameter,...): the name is the function's first child.
Function(name, parameters) ==
    Branch("CSS_FUNCTION", <<>>,
           <<Identifier(name),
             Branch("CSS_PARAMETER_LIST", <<>>, parameters, <<",">>, <<>>)>>,
           <<"(">>, <<")">>)

\* color:value value...
Declaration(values) ==
    Branch("CSS_GENERIC_PROPERTY", <<>>,
           <<Identifier(<<"c", "o", "l", "o", "r">>),
             Branch("CSS_GENERIC_COMPONENT_VALUE_LIST", <<>>, values, <<" ">>, <<>>)>>,
           <<":">>, <<>>)

\* The declarations of a document, one on a line: the node that
\* css.tree().rules() yields.
RuleList(declarations) ==
    Branch("CSS_RULE_LIST", <<>>, declarations, <<";", "\n">>, <<>>)

\* The words of the model's documents.
Red == <<"r", "e", "d">>

NoneKeyword == <<"n", "o", "n", "e">>

HexBlue == <<"#", "0", "0", "f">>

HexShort == <<"#", "f", "0">>

RgbName == <<"r", "g", "b">>

MinName == <<"m", "i", "n">>

\* rgb(1,2,3), which the color parser accepts, and rgb(1), which it rejects.
RgbFunction == Function(RgbName, <<Parameter(<<Number(<<"1">>)>>),
                               Parameter(<<Number(<<"2">>)>>),
                               Parameter(<<Number(<<"3">>)>>)>>)

RgbFunctionShort == Function(RgbName, <<Parameter(<<Number(<<"1">>)>>)>>)

\* The values that hold no other value.
PlainValues ==
    {Identifier(Red), Identifier(NoneKeyword), HexColor(HexBlue), HexColor(HexShort),
     RgbFunction, RgbFunctionShort}

\* min(...) around colors: a function that is no color and holds colors.
NestedValues ==
    LET inner == {Identifier(Red), HexColor(HexBlue), RgbFunction}
    IN  {Function(MinName, <<Parameter(<<v>>)>>) : v \in inner}
        \cup {Function(MinName, <<Parameter(<<v>>), Parameter(<<w>>)>>) :
                  v, w \in {Identifier(Red), HexColor(HexBlue)}}
        \cup {Function(MinName, <<Parameter(<<Identifier(Red), HexColor(HexBlue)>>)>>),
              Function(MinName, <<Parameter(<<Function(MinName,
                                  <<Parameter(<<Identifier(Red)>>)>>)>>)>>)}

Values == PlainValues \cup NestedValues

\* The input documents: one declaration of at most MaxValues values, or two
\* declarations of one value each.
Stylesheets ==
    {RuleList(<<Declaration(values)>>) : values \in SeqsUpTo(Values, MaxValues) \ {<<>>}}
        \cup {RuleList(<<Declaration(<<v>>), Declaration(<<w>>)>>) : v, w \in Values}

\* SyntaxNode::text, text_range, children, first_child
NodeText(css, n) == SubSeq(css.text, css.nodes[n].start + 1, css.nodes[n].end)

TextRange(css, n) == <<css.nodes[n].start, css.nodes[n].end>>

ChildrenOf(css, n) ==
    LET IsChild(i) == css.nodes[i].parent = n
    IN  SelectSeq([i \in 1..Len(css.nodes) |-> i], IsChild)

HasFirstChild(css, n) == ChildrenOf(css, n) # <<>>

FirstChild(css, n) == Head(ChildrenOf(css, n))

\* A color component is a fraction of Unit: c / Unit.  An 8-bit component v
\* is v / 255.
Unit == 4 * 255

\* lsp_types::Color of csscolorparser::Color::from_rgba8
FromRgba8(r, g, b, a) ==
    LET Of(v) == (Unit \div 255) * v
    IN [red |-> Of(r), green |-> Of(g), blue |-> Of(b), alpha |-> Of(a)]

HexDigits ==
    <<"0", "1", "2", "3", "4", "5", "6", "7", "8", "9", "a", "b", "c", "d", "e", "f">>

\* csscolorparser::parse on a text that starts with `#`: 3 or 4 digits stand
\* for their doubled forms, 6 digits are opaque, 8 digits carry the alpha.
ParseHex(text) ==
    LET digits == Tail(text)
        n == Len(digits)
        IsDigit(ch) == \E v \in 0..15 : HexDigits[v + 1] = ch
        Value(ch) == CHOOSE v \in 0..15 : HexDigits[v + 1] = ch
        Short(i) == 17 * Value(digits[i])
        Long(i) == 16 * Value(digits[2 * i - 1]) + Value(digits[2 * i])
    IN IF ~(n \in {3, 4, 6, 8} /\ \A i \in 1..n : IsDigit(digits[i]))
       THEN [ok |-> FALSE]
       ELSE [ok |-> TRUE,
             color |-> CASE n = 3 -> FromRgba8(Short(1), Short(2), Short(3), 255)
                         [] n = 4 -> FromRgba8(Short(1), Short(2), Short(3), Short(4))
                         [] n = 6 -> FromRgba8(Long(1), Long(2), Long(3), 255)
                         [] n = 8 -> FromRgba8(Long(1), Long(2), Long(3), Long(4))]

\* csscolorparser::parse on the texts of the model's documents and on hex
\* texts: it accepts a hex color of 3, 4, 6 or 8 digits, a color name and
\* rgb() of three components, and rejects every other text of these
\* documents.
ParseColor(text) ==
    CASE text # <<>> /\ Head(text) = "#" -> ParseHex(text)
      [] text = Red -> [ok |-> TRUE, color |-> FromRgba8(255, 0, 0, 255)]
      [] text = RgbFunction.text -> [ok |-> TRUE, color |-> FromRgba8(1, 2, 3, 255)]
      [] OTHER -> [ok |-> FALSE]

\* csscolorparser::NAMED_COLORS, the keys that occur in the model's documents.
NamedColors == [name \in {Red} |-> <<255, 0, 0>>]

ColorFunctionNames ==
    {RgbName,
     <<"r", "g", "b", "a">>,
     <<"h", "s", "l">>,
     <<"h", "s", "l", "a">>,
     <<"h", "w", "b">>,
     <<"l", "a", "b">>,
     <<"l", "c", "h">>,
     <<"h", "w", "b", "a">>,
     <<"h", "s", "v">>,
     <<"h", "s", "v", "a">>}

\* lsp_types::Position and Range of a text range: the line is the greatest
\* index whose line start is not after the offset, the character counts from
\* that line's start (one per byte: the texts are ASCII).
ToProtoPosition(line_index, o) ==
    LET line == LineNumber(line_index.line_starts, o)
    IN  [line |-> line, character |-> o - line_index.line_starts[line + 1]]

ToProtoRange(line_index, text_range) ==
    [start |-> ToProtoPosition(line_index, text_range[1]),
     end |-> ToProtoPosition(line_index, text_range[2])]

ColorInformation(color, range) == [color |-> color, range |-> range]

\* CssSyntaxKind::CSS_FUNCTION => ...: colors after the arm for `child`.
OnCssFunctionOrDefault(css, line_index, node, child, colors) ==
    IF HasFirstChild(css, child)
       /\ NodeText(css, FirstChild(css, child)) \in ColorFunctionNames
    THEN Append(colors,
                ColorInformation(IF ParseColor(NodeText(css, node)).ok
                                 THEN ParseColor(NodeText(css, node)).color
                                 ELSE FromRgba8(0, 0, 0, 255),
                                 ToProtoRange(line_index, TextRange(css, node))))
    ELSE colors

OnCssFunction(css, line_index, node, child, colors) ==
    IF HasFirstChild(css, child)
       /\ NodeText(css, FirstChild(css, child)) \in ColorFunctionNames
    THEN IF ParseColor(NodeText(css, node)).ok
         THEN Append(colors,
                     ColorInformation(ParseColor(NodeText(css, node)).color,
                                      ToProtoRange(line_index, TextRange(css, node))))
         ELSE colors
    ELSE colors

\* CssSyntaxKind::CSS_IDENTIFIER => ...
OnCssIdentifier(css, line_index, node, child, colors) ==
    IF NodeText(css, node) \in DOMAIN NamedColors
    THEN LET color == NamedColors[NodeText(css, node)]
         IN  Append(colors,
                    ColorInformation(FromRgba8(color[1], color[2], color[3], 255),
                                     ToProtoRange(line_index, TextRange(css, node))))
    ELSE colors

\* CssSyntaxKind::CSS_COLOR => ...
OnCssColor(css, line_index, node, child, colors) ==
    IF ParseColor(NodeText(css, node)).ok
    THEN Append(colors,
                ColorInformation(ParseColor(NodeText(css, node)).color,
                                 ToProtoRange(line_index, TextRange(css, node))))
    ELSE colors

\* One iteration of node.children().for_each(...)
OnChild(css, line_index, node, child, colors) ==
    CASE css.nodes[child].kind = "CSS_FUNCTION" ->
             OnCssFunction(css, line_index, node, child, colors)
      [] css.nodes[child].kind = "CSS_IDENTIFIER" ->
             OnCssIdentifier(css, line_index, node, child, colors)
      [] css.nodes[child].kind = "CSS_COLOR" ->
             OnCssColor(css, line_index, node, child, colors)
      [] OTHER -> colors

RECURSIVE ForEachChild(_, _, _, _, _)
ForEachChild(css, line_index, node, children, colors) ==
    IF children = <<>> THEN colors
    ELSE ForEachChild(css, line_index, node, Tail(children),
                      OnChild(css, line_index, node, Head(children), colors))

\* extract_colors_information as a function of the node.
RECURSIVE ExtractColorsInformation(_, _, _)
RECURSIVE ExtendWithChildren(_, _, _, _)
ExtendWithChildren(css, line_index, children, colors) ==
    IF children = <<>> THEN colors
    ELSE ExtendWithChildren(css, line_index, Tail(children),
                            colors \o ExtractColorsInformation(css, line_index,
                                                               Head(children)))

ExtractColorsInformation(css, line_index, node) ==
    ExtendWithChildren(css, line_index, ChildrenOf(css, node),
                       ForEachChild(css, line_index, node, ChildrenOf(css, node), <<>>))

\* find_document_colors: the walk starts at the rule list.
FindDocumentColors(css, line_index) == ExtractColorsInformation(css, line_index, 1)

\* A call of extract_colors_information: its node, its colors, the loop it
\* is in and the index of the child that loop takes next.
Frame(node, colors, loop, next) ==
    [node |-> node, colors |-> colors, loop |-> loop, next |-> next]

Top == Last(frames)

TopChildren == ChildrenOf(css_tree, Top.node)

TopChild == TopChildren[Top.next]

ReplaceTop(frame) == frames' = Append(Front(frames), frame)

\* for_each is at a child.
AtChild ==
    /\ color_pc = "walk"
    /\ Top.loop = "for_each"
    /\ Top.next <= Len(TopChildren)

\* History: for_each takes the child; `text` is handed to the parser or to
\* the table for it, with the answer `ok`, and the arm leaves `colors`.
Handed(rule, text, ok, colors) ==
    handed' = Append(handed, [child |-> TopChild, rule |-> rule, text |-> text,
                              ok |-> ok, pushed |-> Len(colors) - Len(Top.colors)])

MatchFunction ==
    /\ AtChild
    /\ css_tree.nodes[TopChild].kind = "CSS_FUNCTION"
    /\ LET colors == OnCssFunction(css_tree, css_line_index, Top.node, TopChild,
                                   Top.colors)
       IN  /\ ReplaceTop([Top EXCEPT !.next = @ + 1, !.colors = colors])
           /\ IF HasFirstChild(css_tree, TopChild)
                 /\ NodeText(css_tree, FirstChild(css_tree, TopChild))
                        \in ColorFunctionNames
              THEN Handed("function", NodeText(css_tree, Top.node),
                          ParseColor(NodeText(css_tree, Top.node)).ok, colors)
              ELSE UNCHANGED handed
    /\ looked' = Append(looked, TopChild)
    /\ UNCHANGED <<storeVars, foldVars, presentVars>>
    /\ UNCHANGED <<css_tree, css_line_index, color_pc, document_colors>>

MatchIdentifier ==
    /\ AtChild
    /\ css_tree.nodes[TopChild].kind = "CSS_IDENTIFIER"
    /\ LET colors == OnCssIdentifier(css_tree, css_line_index, Top.node, TopChild,
                                     Top.colors)
       IN  /\ ReplaceTop([Top EXCEPT !.next = @ + 1, !.colors = colors])
           /\ Handed("identifier", NodeText(css_tree, Top.node),
                     NodeText(css_tree, Top.node) \in DOMAIN NamedColors, colors)
    /\ looked' = Append(looked, TopChild)
    /\ UNCHANGED <<storeVars, foldVars, presentVars>>
    /\ UNCHANGED <<css_tree, css_line_index, color_pc, document_colors>>

MatchColor ==
    /\ AtChild
    /\ css_tree.nodes[TopChild].kind = "CSS_COLOR"
    /\ LET colors == OnCssColor(css_tree, css_line_index, Top.node, TopChild,
                                Top.colors)
       IN  /\ ReplaceTop([Top EXCEPT !.next = @ + 1, !.colors = colors])
           /\ Handed("color", NodeText(css_tree, Top.node),
                     ParseColor(NodeText(css_tree, Top.node)).ok, colors)
    /\ looked' = Append(looked, TopChild)
    /\ UNCHANGED <<storeVars, foldVars, presentVars>>
    /\ UNCHANGED <<css_tree, css_line_index, color_pc, document_colors>>

MatchOther ==
    /\ AtChild
    /\ css_tree.nodes[TopChild].kind \notin {"CSS_FUNCTION", "CSS_IDENTIFIER", "CSS_COLOR"}
    /\ ReplaceTop([Top EXCEPT !.next = @ + 1])
    /\ looked' = Append(looked, TopChild)
    /\ UNCHANGED <<storeVars, foldVars, presentVars>>
    /\ UNCHANGED <<css_tree, css_line_index, color_pc, document_colors, handed>>

\* for_each has taken every child: the loop over the children starts.
ForEachDone ==
    /\ color_pc = "walk"
    /\ Top.loop = "for_each"
    /\ Top.next > Len(TopChildren)
    /\ ReplaceTop([Top EXCEPT !.loop = "for", !.next = 1])
    /\ UNCHANGED <<storeVars, foldVars, presentVars>>
    /\ UNCHANGED <<css_tree, css_line_index, color_pc, document_colors, looked, handed>>

\* extract_colors_information(&child, ...) is called.
ExtractChild ==
    /\ color_pc = "walk"
    /\ Top.loop = "for"
    /\ Top.next <= Len(TopChildren)
    /\ frames' = Append(Append(Front(frames), [Top EXCEPT !.next = @ + 1]),
                        Frame(TopChild, <<>>, "for_each", 1))
    /\ UNCHANGED <<storeVars, foldVars, presentVars>>
    /\ UNCHANGED <<css_tree, css_line_index, color_pc, document_colors, looked, handed>>

\* A call on a child returns its colors: colors.extend(...).
ReturnToParent ==
    /\ color_pc = "walk"
    /\ Top.loop = "for"
    /\ Top.next > Len(TopChildren)
    /\ Len(frames) > 1
    /\ LET caller == frames[Len(frames) - 1]
       IN  frames' = Append(SubSeq(frames, 1, Len(frames) - 2),
                            [caller EXCEPT !.colors = @ \o Top.colors])
    /\ UNCHANGED <<storeVars, foldVars, presentVars>>
    /\ UNCHANGED <<css_tree, css_line_index, color_pc, document_colors, looked, handed>>

\* The call on the rule list returns: get_document_colors returns its colors.
ReturnColors ==
    /\ color_pc = "walk"
    /\ Top.loop = "for"
    /\ Top.next > Len(TopChildren)
    /\ Len(frames) = 1
    /\ document_colors' = Top.colors
    /\ frames' = <<>>
    /\ color_pc' = "done"
    /\ UNCHANGED <<storeVars, foldVars, presentVars>>
    /\ UNCHANGED <<css_tree, css_line_index, looked, handed>>

\* get_document_colors is entered with the tree and the line index of the
\* store entry of the document.
ColorEnter(stylesheet) ==
    /\ css_tree = stylesheet
    /\ css_line_index = LineIndexNew(stylesheet.text)
    /\ frames = <<Frame(1, <<>>, "for_each", 1)>>
    /\ document_colors = <<>>
    /\ looked = <<>>
    /\ handed = <<>>

ColorIdle == ColorEnter(RuleList(<<>>)) /\ color_pc = "idle"

ColorInit == (\E stylesheet \in Stylesheets : ColorEnter(stylesheet)) /\ color_pc = "walk"

ColorNext ==
    \/ MatchFunction
    \/ MatchIdentifier
    \/ MatchColor
    \/ MatchOther
    \/ ForEachDone
    \/ ExtractChild
    \/ ReturnToParent
    \/ ReturnColors

(***************************************************************************)
(* Color presentations (colors.rs:102-177)                                 *)
(***************************************************************************)
\* f32::round of n / d for n >= 0, d > 0: to the nearest integer, a half
\* away from zero.
Round(n, d) == (2 * n + d) \div (2 * d)

Max(a, b) == IF a >= b THEN a ELSE b

Min(a, b) == IF a <= b THEN a ELSE b

\* format!("{}", n) for an integer-valued n >= 0
RECURSIVE Decimal(_)
Decimal(n) ==
    IF n < 10 THEN <<HexDigits[n + 1]>>
    ELSE Decimal(n \div 10) \o <<HexDigits[(n % 10) + 1]>>

\* format!("{:02x}", v) for an 8-bit v
Hex2(v) == <<HexDigits[(v \div 16) + 1], HexDigits[(v % 16) + 1]>>

\* (c * 255.0).round() as u8, for a component c / Unit
ToU8(c) == Round(255 * c, Unit)

\* csscolorparser::Color::to_rgba8 of from_rgba8(r, g, b, a): the same bytes.
\* The alpha of the parsed color is a / 255; it is 1.0 exactly for a = 255.
AlphaIsOne(rgba) == rgba[4] = 255

\* (alpha * 100.0).round()
AlphaPercent(rgba) == Round(100 * rgba[4], 255)

\* The text " / A%" of a color whose alpha is not 1.0, no text otherwise.
AlphaSuffix(rgba) ==
    IF AlphaIsOne(rgba) THEN <<>>
    ELSE <<" ", "/", " ">> \o Decimal(AlphaPercent(rgba)) \o <<"%">>

\* csscolorparser::Color::to_hsla: hue in degrees, saturation and lightness
\* as numerator and denominator.
Hue(rgba) ==
    LET r == rgba[1]
        g == rgba[2]
        b == rgba[3]
        max == Max(r, Max(g, b))
        min == Min(r, Min(g, b))
        d == max - min
        sixths == IF r = max THEN g - b
                  ELSE IF g = max THEN 2 * d + b - r
                  ELSE 4 * d + r - g
    IN  IF d = 0 THEN [n |-> 0, d |-> 1]
        ELSE [n |-> 60 * (IF sixths < 0 THEN sixths + 6 * d ELSE sixths), d |-> d]

Saturation(rgba) ==
    LET max == Max(rgba[1], Max(rgba[2], rgba[3]))
        min == Min(rgba[1], Min(rgba[2], rgba[3]))
    IN  IF max = min THEN [n |-> 0, d |-> 1]
        ELSE IF max + min < 255 THEN [n |-> max - min, d |-> max + min]
        ELSE [n |-> max - min, d |-> 2 * 255 - max - min]

Lightness(rgba) ==
    [n |-> Max(rgba[1], Max(rgba[2], rgba[3])) + Min(rgba[1], Min(rgba[2], rgba[3])),
     d |-> 2 * 255]

\* csscolorparser::Color::to_hwba: whiteness and blackness
Whiteness(rgba) == [n |-> Min(rgba[1], Min(rgba[2], rgba[3])), d |-> 255]

Blackness(rgba) == [n |-> 255 - Max(rgba[1], Max(rgba[2], rgba[3])), d |-> 255]

\* x.round() and (x * 100.0).round() as texts
Rounded(x) == Decimal(Round(x.n, x.d))

Percent(x) == Decimal(Round(100 * x.n, x.d)) \o <<"%">>

RgbString(rgba) ==
    <<"r", "g", "b", "(">> \o Decimal(rgba[1]) \o <<" ">> \o Decimal(rgba[2])
        \o <<" ">> \o Decimal(rgba[3]) \o AlphaSuffix(rgba) \o <<")">>

HexStringAlphaFirst(rgba) ==
    <<"#">> \o (IF AlphaIsOne(rgba) THEN <<>> ELSE Hex2(rgba[4]))
        \o Hex2(rgba[1]) \o Hex2(rgba[2]) \o Hex2(rgba[3])

\* csscolorparser::Color::to_hex_string
HexString(rgba) ==
    <<"#">> \o Hex2(rgba[1]) \o Hex2(rgba[2]) \o Hex2(rgba[3])
        \o (IF AlphaIsOne(rgba) THEN <<>> ELSE Hex2(rgba[4]))

HslStringOpaque(rgba) ==
    <<"h", "s", "l", "(">> \o Rounded(Hue(rgba)) \o <<" ">> \o Percent(Saturation(rgba))
        \o <<" ">> \o Percent(Lightness(rgba)) \o <<")">>

HslString(rgba) ==
    <<"h", "s", "l", "(">> \o Rounded(Hue(rgba)) \o <<" ">> \o Percent(Saturation(rgba))
        \o <<" ">> \o Percent(Lightness(rgba)) \o AlphaSuffix(rgba) \o <<")">>

HwbString(rgba) ==
    <<"h", "w", "b", "(">> \o Rounded(Hue(rgba)) \o <<" ">> \o Percent(Whiteness(rgba))
        \o <<" ">> \o Percent(Blackness(rgba)) \o AlphaSuffix(rgba) \o <<")">>

\* let color_texts = vec![...]
ColorTextsHexFirst(rgba) ==
    <<HexString(rgba), RgbString(rgba), HslString(rgba), HwbString(rgba)>>

ColorTexts(rgba) ==
    <<RgbString(rgba), HexString(rgba), HslString(rgba), HwbString(rgba)>>

\* lsp_types::ColorPresentation
ColorPresentation(color, range, text) ==
    [label |-> text,
     text_edit |-> [range |-> range, new_text |-> text],
     additional_text_edits |-> "None"]

\* compute_color_presentations(color, range), color a ColorInformation
ComputeColorPresentations(color, range) ==
    LET rgba == <<ToU8(color.color.red), ToU8(color.color.green),
                  ToU8(color.color.blue), ToU8(color.color.alpha)>>
        color_texts == ColorTexts(rgba)
    IN  [i \in 1..Len(color_texts) |-> ColorPresentation(color, range, color_texts[i])]

\* The input colors and ranges of get_color_presentations.
Ranges ==
    {[start |-> p, end |-> q] :
         p, q \in {[line |-> 0, character |-> 0], [line |-> 1, character |-> 3]}}

\* The range of the color information itself, which is not the target range.
OccurrenceRange ==
    [start |-> [line |-> 0, character |-> 0], end |-> [line |-> 1, character |-> 3]]

RequestColors ==
    {ColorInformation([red |-> r, green |-> g, blue |-> b, alpha |-> a], OccurrenceRange) :
         r, g, b \in {0, 255, 683, Unit}, a \in 0..Unit}

\* LanguageService::get_color_presentations, called once.
GetColorPresentations ==
    /\ request = <<>>
    /\ \E color \in RequestColors, range \in Ranges :
          /\ request' = <<[color |-> color, range |-> range]>>
          /\ presentations' = ComputeColorPresentations(color, range)
    /\ UNCHANGED <<storeVars, foldVars, colorVars>>

PresentIdle == request = <<>> /\ presentations = <<>>

PresentNext == GetColorPresentations

(***************************************************************************)
(* The language service (colors.rs:179-197, folding.rs:174-188)             *)
(***************************************************************************)
\* The documents handed to get_document_colors, as parse_css reads them: one
\* declaration of one color, and two declarations on two lines.
DeclarationSheets ==
    {RuleList(<<Declaration(<<Identifier(Red)>>)>>),
     RuleList(<<Declaration(<<HexColor(HexBlue)>>)>>),
     RuleList(<<Declaration(<<Identifier(Red)>>), Declaration(<<HexColor(HexBlue)>>)>>)}

DeclarationTexts == {css.text : css \in DeclarationSheets}

\* The texts handed to get_folding_ranges only: a block and a comment of two
\* lines each.
BlockTexts == {<<"{", "\n", "}">>, <<"/", "*", "\n", "*", "/">>}

ServiceDocuments(texts) ==
    {TextDocumentItem(u, v, t) : u \in Uris, v \in Versions, t \in texts}

\* The nodes under the root parse_css gave for a text of DeclarationTexts:
\* the document that is written as this text.
SyntaxTree(root) == CHOOSE css \in DeclarationSheets : css.text = root.text

\* get_document_colors: the entry the store returns, then the colors of
\* that entry's tree and index.
GetDocumentColors(document) ==
    /\ service = "live"
    /\ Called("get_document_colors", document)
    /\ \/ GetVacant(document)
       \/ GetOccupied(document)
    /\ LET store_entry == documents'[document.uri]
       IN  returned' = [kind |-> "colors", key |-> document.uri,
                        value |-> FindDocumentColors(SyntaxTree(store_entry.css_tree),
                                                     store_entry.line_index)]
    /\ UNCHANGED service
    /\ UNCHANGED <<foldVars, colorVars, presentVars>>

\* get_folding_ranges: it takes the service by value, so the service and
\* its store are dropped when it returns.
GetFoldingRanges(document) ==
    /\ service = "live"
    /\ Called("get_folding_ranges", document)
    /\ \/ GetVacant(document)
       \/ GetOccupied(document)
    /\ LET store_document == documents'[document.uri]
       IN  returned' = [kind |-> "folding_ranges", key |-> document.uri,
                        value |-> ComputeFoldingRanges(store_document.document.text)]
    /\ service' = "moved"
    /\ UNCHANGED <<foldVars, colorVars, presentVars>>

ServiceNext ==
    \/ \E document \in ServiceDocuments(DeclarationTexts) : GetDocumentColors(document)
    \/ \E document \in ServiceDocuments(DeclarationTexts \cup BlockTexts) :
           GetFoldingRanges(document)

(***************************************************************************)
(* Specifications                                                          *)
(***************************************************************************)
\* The document store under any sequence of calls.
Init == StoreInit /\ FoldIdle /\ ColorIdle /\ PresentIdle

Next == StoreNext

Spec == Init /\ [][Next]_vars

\* compute_folding_ranges on any text of FoldTexts.
FoldSpecInit == StoreInit /\ FoldInit /\ ColorIdle /\ PresentIdle

FoldSpec == FoldSpecInit /\ [][FoldNext]_vars

\* The texts compute_folding_ranges is run to its return on: every text of at
\* most MaxLiveChars delimiter characters and every text of at most
\* MaxLivePieces braces, line breaks and whole marker comments.
FoldLiveTexts ==
    SeqsUpTo(Chars, MaxLiveChars)
        \cup {Flatten(ps) : ps \in SeqsUpTo(MarkerPieces, MaxLivePieces)}

\* compute_folding_ranges run to its return: it is one sequential function, so
\* its loops go on as long as they have a step to take.
FoldLiveInit ==
    /\ StoreInit /\ ColorIdle /\ PresentIdle
    /\ (\E text \in FoldLiveTexts : FoldEnter(text)) /\ pc = "scan"

FoldLiveSpec == FoldLiveInit /\ [][FoldNext]_vars /\ WF_vars(FoldNext)

\* The requests of a client to one language service.
ServiceSpec == Init /\ [][ServiceNext]_vars

\* get_document_colors on any tree of Stylesheets.
ColorSpecInit == StoreInit /\ FoldIdle /\ ColorInit /\ PresentIdle

ColorSpec == ColorSpecInit /\ [][ColorNext]_vars

\* One call of get_color_presentations, on any color of RequestColors and any
\* range of Ranges.
PresentSpec == Init /\ [][PresentNext]_vars

(***************************************************************************)
(* Claims about the document store, checked under Spec                     *)
(***************************************************************************)
IsGet == last_call.op = "get_or_update_document"

IsRemove == last_call.op = "remove"

\* The entry a reference returned by the last call points to.
ReturnedEntry == documents[returned.key]

BuiltEntry(document) ==
    [document |-> document,
     line_index |-> [line_starts |-> <<0>> \o NewlineEnds(document.text, 1)],
     css_tree |-> [kind |-> "CSS_ROOT", range |-> <<0, Len(document.text)>>,
                   text |-> document.text]]

\* The last call was a get_or_update_document for a cached URI with the
\* stored version.
SameVersionHit ==
    /\ IsGet
    /\ last_call.arg.uri \in DOMAIN last_call.before
    /\ last_call.before[last_call.arg.uri].document.version = last_call.arg.version

\* The last call was a get_or_update_document for a cached URI with another
\* version.
OtherVersionHit ==
    /\ IsGet
    /\ last_call.arg.uri \in DOMAIN last_call.before
    /\ last_call.before[last_call.arg.uri].document.version # last_call.arg.version

FirstAccess ==
    /\ IsGet
    /\ last_call.arg.uri \notin DOMAIN last_call.before

\* C1: a get_or_update_document for a cached URI with the stored version
\* leaves the whole store as it was (document, text, index and tree of the
\* entry included), builds nothing, and returns that entry, whatever text the
\* call supplied.
C1_SameVersionReturnsEntryUnchanged ==
    SameVersionHit =>
        /\ documents = last_call.before
        /\ rebuilds = last_call.rebuilds_before
        /\ returned = [kind |-> "entry", key |-> last_call.arg.uri]
        /\ ReturnedEntry = last_call.before[last_call.arg.uri]

\* The case of C1 with a supplied text that differs from the stored one.
C1_Witness ==
    /\ SameVersionHit
    /\ last_call.arg.text # ReturnedEntry.document.text
    /\ rebuilds = 1

\* C2: every cached entry holds the index and the tree built from the text
\* of the document stored in that entry, and is stored under its document's
\* URI.
C2_EntryCorrespondsToItsText ==
    \A uri \in DOMAIN documents :
        /\ documents[uri] = BuiltEntry(documents[uri].document)
        /\ documents[uri].document.uri = uri

\* A store with two entries, one of which was replaced by a document with
\* another text.
C2_Witness ==
    /\ DOMAIN documents = Uris
    /\ OtherVersionHit
    /\ last_call.before[last_call.arg.uri].document.text # last_call.arg.text
    /\ Len(ReturnedEntry.line_index.line_starts) = 2

\* C3: a get_or_update_document for a cached URI with a version that differs
\* from the stored one, greater or smaller, replaces the entry's document,
\* index and tree by the supplied document and the values built from its
\* text; the other entries stay.
C3_OtherVersionReplacesAllThree ==
    OtherVersionHit =>
        /\ DOMAIN documents = DOMAIN last_call.before
        /\ documents[last_call.arg.uri] = BuiltEntry(last_call.arg)
        /\ \A uri \in DOMAIN documents \ {last_call.arg.uri} :
              documents[uri] = last_call.before[uri]
        /\ rebuilds = last_call.rebuilds_before + 1
        /\ returned = [kind |-> "entry", key |-> last_call.arg.uri]

\* An older version replaced a newer one, with another text.
C3_Witness ==
    /\ OtherVersionHit
    /\ last_call.arg.version < last_call.before[last_call.arg.uri].document.version
    /\ last_call.arg.text # last_call.before[last_call.arg.uri].document.text
    /\ ReturnedEntry.document = last_call.arg

\* C4: a get_or_update_document for a URI with no entry adds exactly one
\* entry, under that URI, holding the supplied document and the index and
\* tree built from its text, and returns it; the entries of other URIs stay.
C4_FirstAccessCreatesOneEntry ==
    FirstAccess =>
        /\ DOMAIN documents = DOMAIN last_call.before \cup {last_call.arg.uri}
        /\ Cardinality(DOMAIN documents) = Cardinality(DOMAIN last_call.before) + 1
        /\ documents[last_call.arg.uri] = BuiltEntry(last_call.arg)
        /\ \A uri \in DOMAIN last_call.before : documents[uri] = last_call.before[uri]
        /\ rebuilds = last_call.rebuilds_before + 1
        /\ returned = [kind |-> "entry", key |-> last_call.arg.uri]
        /\ ReturnedEntry.document = last_call.arg

\* A first access that added a second entry, for a text of two lines.
C4_Witness ==
    /\ FirstAccess
    /\ Cardinality(DOMAIN documents) = 2
    /\ Len(ReturnedEntry.line_index.line_starts) = 2

\* C5: remove(uri) leaves no entry for uri, whatever version was stored and
\* also when there was none, returns () and leaves every other entry as it
\* was; nothing is built.
C5_RemoveEvictsOnlyThatUri ==
    IsRemove =>
        /\ last_call.arg \notin DOMAIN documents
        /\ DOMAIN documents = DOMAIN last_call.before \ {last_call.arg}
        /\ \A uri \in DOMAIN documents : documents[uri] = last_call.before[uri]
        /\ returned = [kind |-> "unit"]
        /\ rebuilds = last_call.rebuilds_before

\* An entry of version MaxVersion was removed and the other URI's entry stays.
C5_Witness ==
    /\ IsRemove
    /\ last_call.arg \in DOMAIN last_call.before
    /\ last_call.before[last_call.arg].document.version = MaxVersion
    /\ DOMAIN documents = Uris \ {last_call.arg}

\* A removal for a URI that had no entry, from a store that holds another one.
C5_WitnessAbsent ==
    /\ IsRemove
    /\ last_call.arg \notin DOMAIN last_call.before
    /\ documents # <<>>
    /\ documents = last_call.before

(***************************************************************************)
(* Claims about compute_folding_ranges, checked under FoldSpec             *)
(***************************************************************************)
Done == pc = "done"

SeqRange(seq) == {seq[i] : i \in 1..Len(seq)}

Count(seq, x) == Cardinality({i \in 1..Len(seq) : seq[i] = x})

\* The two sequences hold the same elements, each as many times.
SameBag(a, b) ==
    /\ Len(a) = Len(b)
    /\ \A x \in SeqRange(a) \cup SeqRange(b) : Count(a, x) = Count(b, x)

\* The line of the character at 1-based index i: the line breaks before it.
LineOfIndex(text, i) == Cardinality({j \in 1..(i - 1) : text[j] = "\n"})

\* The last line with content is the line of the last character.
LastContentLine(text) == IF text = <<>> THEN 0 ELSE LineOfIndex(text, Len(text))

OfKind(ranges, kind) ==
    LET Is(r) == r.kind = kind IN SelectSeq(ranges, Is)

Delimiters == {"{", "}", "/", "*"}

\* A reading of the text as nested constructs that owes nothing to the
\* scanner.  Outside comments a text holds braces, comments and characters
\* that are no delimiter; a comment runs from "/*" to the next "*" , which
\* must start "*/", and holds no delimiter; a comment is a region opener, a
\* region closer or a plain comment by the text between its own "/*" and
\* "*/"; braces and regions nest in one another, every one of them closes,
\* and every brace block, plain comment and region ends on a later line than
\* it starts on.  ok says the text reads so, ranges lists its constructs.
RECURSIVE Constructs(_, _, _, _)
Constructs(text, i, open, found) ==
    IF i > Len(text) THEN [ok |-> open = <<>>, ranges |-> found]
    ELSE
    LET c == text[i]
        line == LineOfIndex(text, i)
        ill == [ok |-> FALSE, ranges |-> found]
        later == {k \in (i + 2)..Len(text) : text[k] \in Delimiters}
        j == CHOOSE k \in later : \A m \in later : k <= m
        content == SubSeq(text, i + 2, j - 1)
        end_line == LineOfIndex(text, j)
    IN  CASE c = "{" ->
                Constructs(text, i + 1, Append(open, [kind |-> "brace", line |-> line]),
                           found)
          [] c = "}" ->
                IF open # <<>> /\ Last(open).kind = "brace" /\ Last(open).line < line
                THEN Constructs(text, i + 1, Front(open),
                                Append(found, FoldingRange(Last(open).line, line, "None")))
                ELSE ill
          [] c = "/" ->
                IF ~(i < Len(text) /\ text[i + 1] = "*") \/ later = {} THEN ill
                ELSE IF ~(text[j] = "*" /\ j < Len(text) /\ text[j + 1] = "/") THEN ill
                ELSE IF Contains(content, RegionMarker)
                THEN Constructs(text, j + 2,
                                Append(open, [kind |-> "region", line |-> line]), found)
                ELSE IF Contains(content, EndRegionMarker)
                THEN IF open # <<>> /\ Last(open).kind = "region"
                        /\ Last(open).line < end_line
                     THEN Constructs(text, j + 2, Front(open),
                                     Append(found, FoldingRange(Last(open).line,
                                                                end_line, "Region")))
                     ELSE ill
                ELSE IF line < end_line
                THEN Constructs(text, j + 2, open,
                                Append(found, FoldingRange(line, end_line, "Comment")))
                ELSE ill
          [] c = "*" -> ill
          [] OTHER -> Constructs(text, i + 1, open, found)

ProperlyNested(text) == Constructs(text, 1, <<>>, <<>>)

\* C6: for a text whose braces, comments and region marker comments are
\* properly nested and all span several lines, the result holds exactly one
\* range per construct: kind None for a brace block, Comment for a plain
\* comment, Region for a region, from the opener's line to the closer's line.
C6_OneRangePerConstruct ==
    (Done /\ ProperlyNested(source).ok) =>
        SameBag(folding_ranges, ProperlyNested(source).ranges)

\* What is left of the scan's result after the scan loop: the trailing ranges.
TrailingRanges ==
    SubSeq(folding_ranges, Len(scan_end.folding_ranges) + 1, Len(folding_ranges))

\* One range to the last content line for every marker of the stack that
\* does not start on that line.
ExpectedTrailing(stack, kind) ==
    LET last_line == LastContentLine(source)
        Spans(line) == line # last_line
        kept == SelectSeq(stack, Spans)
    IN  [i \in 1..Len(kept) |-> FoldingRange(kept[i], last_line, kind)]

C7_WitnessRegion ==
    /\ Done
    /\ scan_end.region_stack # <<>>
    /\ TrailingRanges # <<>>
    /\ Last(TrailingRanges).kind = "Region"

\* The text holds one "{", on line 0, no "}", and a content line after line 0.
OneUnmatchedBrace(text) ==
    /\ Cardinality({i \in 1..Len(text) : text[i] = "{"}) = 1
    /\ \A i \in 1..Len(text) : text[i] = "{" => LineOfIndex(text, i) = 0
    /\ \A i \in 1..Len(text) : text[i] # "}"
    /\ LastContentLine(text) >= 1

LineText(text, line) ==
    SubSeq(text, LineStarts(text)[line + 1] + 1,
           IF line + 1 < Len(LineStarts(text))
           THEN LineStarts(text)[line + 2] ELSE Len(text))

NoMarkerOnLine(text, line) ==
    /\ ~Contains(LineText(text, line), RegionMarker)
    /\ ~Contains(LineText(text, line), EndRegionMarker)

\* The pairs C9 is about: a "{" and the "}" that closes it on the same line, a
\* "/*" and the "*/" that closes it on the same line, no marker on that line.
SingleLineConstruct(p) ==
    \/ p.kind = "brace"
    \/ p.kind = "comment" /\ NoMarkerOnLine(source, p.line)

\* The text with the two delimiters of the pair replaced by spaces.
Blanked(text, p) ==
    LET width == IF p.kind = "brace" THEN 1 ELSE 2
    IN  [i \in 1..Len(text) |->
            IF \/ (i > p.open /\ i <= p.open + width)
               \/ (i > p.close /\ i <= p.close + width)
            THEN " " ELSE text[i]]

\* C9: a brace pair, or a comment with no marker on its line, that opens and
\* closes on one line adds no range when it closes, and the result is the
\* result for the text without that pair.
C9_SingleLineConstructYieldsNothing ==
    Done =>
        \A i \in 1..Len(same_line) :
            SingleLineConstruct(same_line[i]) =>
                /\ same_line[i].emitted = 0
                /\ ComputeFoldingRanges(Blanked(source, same_line[i])) = folding_ranges

\* A text with a single-line brace pair and a range for another construct.
C9_Witness ==
    /\ Done
    /\ \E i \in 1..Len(same_line) : same_line[i].kind = "brace"
    /\ folding_ranges # <<>>

\* A text with a single-line comment and a range for another construct.
C9_WitnessComment ==
    /\ Done
    /\ \E i \in 1..Len(same_line) :
          same_line[i].kind = "comment" /\ SingleLineConstruct(same_line[i])
    /\ folding_ranges # <<>>

\* The text holds no "{", no "}", no "/*" and no "*/".
NoDelimiterToken(text) ==
    /\ \A i \in 1..Len(text) : text[i] \notin {"{", "}"}
    /\ \A i \in 1..(Len(text) - 1) :
          SubSeq(text, i, i + 1) \notin {CommentOpen, CommentClose}

\* C10: for a text with no "{", "}", "/*" or "*/" the result is empty.
C10_NoDelimiterNoRange ==
    (Done /\ NoDelimiterToken(source)) => folding_ranges = <<>>

\* Such a text, of several lines, with a lone "/" and a lone "*".
C10_Witness ==
    /\ Done
    /\ NoDelimiterToken(source)
    /\ LastContentLine(source) >= 2
    /\ "/" \in SeqRange(source)
    /\ "*" \in SeqRange(source)

\* The text of the lines first..last, line breaks included.
LinesText(text, first, last) ==
    LET breaks == {j \in 1..Len(text) : text[j] = "\n"}
        Line(i) == Cardinality({j \in breaks : j < i})
        within == {i \in 1..Len(text) : Line(i) >= first /\ Line(i) <= last}
        from == CHOOSE i \in within : \A j \in within : i <= j
    IN  [k \in 1..Cardinality(within) |-> text[from + k - 1]]

\* The scanner has just closed a comment: it is at the offset after its "*/".
JustClosed == pc = "scan" /\ closed.n > 0 /\ offset = closed.at

\* The content the comment closed last is classified by.
ClosedContent == LinesText(source, closed.start_line, closed.end_line)

\* What the close of the comment closed last added to the ranges.
ClosedEmitted ==
    SubSeq(folding_ranges, Len(closed.ranges_before) + 1, Len(folding_ranges))

ClosedRegionOpener == JustClosed /\ Contains(ClosedContent, RegionMarker)

ClosedRegionCloser ==
    /\ JustClosed
    /\ ~Contains(ClosedContent, RegionMarker)
    /\ Contains(ClosedContent, EndRegionMarker)

\* C11: when a comment closes whose content holds "#region" anywhere, the
\* close adds no range, whether the comment spans one line or several, and
\* pushes the comment's start line on the region stack.
C11_RegionOpenerPushesAndEmitsNothing ==
    ClosedRegionOpener =>
        /\ folding_ranges = closed.ranges_before
        /\ region_stack = Append(closed.regions_before, closed.start_line)

\* A comment of several lines whose content holds "#region" has just closed.
C11_Witness ==
    /\ ClosedRegionOpener
    /\ closed.start_line < closed.end_line
    /\ region_stack # <<>>

\* A comment whose content holds "#region" and, after it, "#endregion" has
\* just closed.
C11_WitnessOtherText ==
    /\ ClosedRegionOpener
    /\ Contains(ClosedContent, RegionMarker \o EndRegionMarker)
    /\ region_stack # <<>>

C12_WitnessNoneOpen ==
    /\ ClosedRegionCloser
    /\ closed.regions_before = <<>>
    /\ closed.start_line < closed.end_line

Occurrences(text, word) ==
    {i \in 1..(Len(text) - Len(word) + 1) : SubSeq(text, i, i + Len(word) - 1) = word}

\* The text is made of braces, line breaks and marker comments, at most one
\* comment on a line: every comment is then alone on the line it is
\* classified by.
BracesAndMarkerComments(text) ==
    LET opener == CommentOpen \o RegionMarker \o CommentClose
        closer == CommentOpen \o EndRegionMarker \o CommentClose
        openers == Occurrences(text, opener)
        closers == Occurrences(text, closer)
        comments == Occurrences(text, CommentOpen)
        InComment(i) ==
            \/ \E j \in openers : j <= i /\ i < j + Len(opener)
            \/ \E j \in closers : j <= i /\ i < j + Len(closer)
    IN  /\ \A i \in 1..Len(text) : text[i] \in {"{", "}", "\n"} \/ InComment(i)
        /\ \A i, j \in comments : LineOfIndex(text, i) = LineOfIndex(text, j) => i = j

\* Two ranges of the sequence have the same lines and different kinds.
SameSpanPair(ranges) ==
    \E i, j \in 1..Len(ranges) :
        /\ ranges[i].start_line = ranges[j].start_line
        /\ ranges[i].end_line = ranges[j].end_line
        /\ ranges[i].kind # ranges[j].kind

ColorDone == color_pc = "done"

NodesBelowRoot == 2..Len(css_tree.nodes)

KindOf(n) == css_tree.nodes[n].kind

OwnText(n) == NodeText(css_tree, n)

\* The position of offset o: the line breaks before it, and the characters
\* since the last of them.
PositionAt(text, o) ==
    LET breaks == {j \in 1..o : text[j] = "\n"}
        last == IF breaks = {} THEN 0 ELSE CHOOSE j \in breaks : \A k \in breaks : k <= j
    IN  [line |-> Cardinality(breaks), character |-> o - last]

\* The node's own range, as line and character positions.
OwnRange(n) ==
    [start |-> PositionAt(css_tree.text, css_tree.nodes[n].start),
     end |-> PositionAt(css_tree.text, css_tree.nodes[n].end)]

\* A function node whose first child's text is the name of a color function.
IsColorFunction(n) ==
    /\ KindOf(n) = "CSS_FUNCTION"
    /\ HasFirstChild(css_tree, n)
    /\ OwnText(FirstChild(css_tree, n)) \in ColorFunctionNames

\* The occurrence the node yields by its own text and range, if it yields one.
Matches(n) ==
    \/ IsColorFunction(n) /\ ParseColor(OwnText(n)).ok
    \/ KindOf(n) = "CSS_IDENTIFIER" /\ OwnText(n) \in DOMAIN NamedColors
    \/ KindOf(n) = "CSS_COLOR" /\ ParseColor(OwnText(n)).ok

OwnOccurrence(n) ==
    ColorInformation(IF KindOf(n) = "CSS_IDENTIFIER"
                     THEN FromRgba8(NamedColors[OwnText(n)][1], NamedColors[OwnText(n)][2],
                                    NamedColors[OwnText(n)][3], 255)
                     ELSE ParseColor(OwnText(n)).color,
                     OwnRange(n))

\* What the history holds for the node: the texts handed on for it.
HandedFor(n) ==
    LET Is(h) == h.child = n IN SelectSeq(handed, Is)

\* C15 as stated: for every function node whose first child's text is the
\* name of a color function, the text handed to the parser is the node's own
\* text, and when the parser accepts it the result holds exactly one
\* occurrence with that color and the node's own range.
C15_FunctionParsedByOwnText ==
    ColorDone =>
        \A n \in NodesBelowRoot :
            IsColorFunction(n) =>
                /\ Len(HandedFor(n)) = 1
                /\ HandedFor(n)[1].text = OwnText(n)
                /\ ParseColor(OwnText(n)).ok =>
                       Count(document_colors, OwnOccurrence(n)) = 1

\* C16 as stated: an identifier node whose own text is a key of the table of
\* named colors yields exactly one occurrence, with the table's color at full
\* opacity and the node's own range; any other identifier node yields none.
C16_IdentifierLookedUpByOwnText ==
    ColorDone =>
        \A n \in NodesBelowRoot :
            KindOf(n) = "CSS_IDENTIFIER" =>
                /\ Len(HandedFor(n)) = 1
                /\ IF OwnText(n) \in DOMAIN NamedColors
                   THEN /\ HandedFor(n)[1].pushed = 1
                        /\ Count(document_colors, OwnOccurrence(n)) = 1
                   ELSE HandedFor(n)[1].pushed = 0

\* C17 as stated: every node below the root is looked at, once, and a node
\* that is a color by its own text is found at whatever depth it lies.
C17_ColorsAtAnyDepthFound ==
    ColorDone =>
        /\ Len(looked) = Len(css_tree.nodes) - 1
        /\ SeqRange(looked) = NodesBelowRoot
        /\ \A n \in NodesBelowRoot :
              Matches(n) => Count(document_colors, OwnOccurrence(n)) >= 1

\* The occurrences of the matching nodes from node n on, in pre-order.
RECURSIVE InPreOrder(_)
InPreOrder(n) ==
    IF n > Len(css_tree.nodes) THEN <<>>
    ELSE (IF Matches(n) THEN <<OwnOccurrence(n)>> ELSE <<>>) \o InPreOrder(n + 1)

\* C18 as stated: the result holds one occurrence for every matching node,
\* in the pre-order of the nodes.
C18_OccurrencesInPreOrder ==
    ColorDone => document_colors = InPreOrder(2)

\* The parser has rejected the text handed to it for the node, a color
\* function or a hex color.
Rejected(n) ==
    /\ Len(HandedFor(n)) = 1
    /\ HandedFor(n)[1].rule \in {"function", "color"}
    /\ ~HandedFor(n)[1].ok

\* The tree with node n of a kind that no rule matches.
NonMatching(css, n) == [css EXCEPT !.nodes[n].kind = "CSS_BOGUS"]

\* C19: a color function or hex color for which the parser rejects the text
\* adds no occurrence, the call ends with a result, and the result is the
\* result for the tree in which that node is of a non-matching kind.
C19_RejectedNodeContributesNothing ==
    ColorDone =>
        \A n \in NodesBelowRoot :
            Rejected(n) =>
                /\ HandedFor(n)[1].pushed = 0
                /\ document_colors
                      = FindDocumentColors(NonMatching(css_tree, n), css_line_index)

\* A tree with a hex color that the parser rejects and a color that is found.
C19_Witness ==
    /\ ColorDone
    /\ document_colors # <<>>
    /\ \E n \in NodesBelowRoot :
          /\ KindOf(n) = "CSS_COLOR"
          /\ Rejected(n)
          /\ ~ParseColor(OwnText(n)).ok

\* A tree with a color function that the parser rejects and a color that is
\* found.
C19_WitnessFunction ==
    /\ ColorDone
    /\ document_colors # <<>>
    /\ \E n \in NodesBelowRoot :
          /\ IsColorFunction(n)
          /\ Rejected(n)
          /\ ~ParseColor(OwnText(n)).ok

(***************************************************************************)
(* Claims about get_color_presentations, checked under PresentSpec         *)
(***************************************************************************)
Presented == request # <<>>

StartsWith(text, prefix) ==
    Len(text) >= Len(prefix) /\ SubSeq(text, 1, Len(prefix)) = prefix

\* C20: the call returns four presentations, the RGB form, the hex form, the
\* HSL form and the HWB form in this order, and the text edit of each covers
\* the range of the call with the presentation's label as its new text.
C20_FourPresentationsInOrder ==
    Presented =>
        /\ Len(presentations) = 4
        /\ StartsWith(presentations[1].label, <<"r", "g", "b", "(">>)
        /\ StartsWith(presentations[2].label, <<"#">>)
        /\ StartsWith(presentations[3].label, <<"h", "s", "l", "(">>)
        /\ StartsWith(presentations[4].label, <<"h", "w", "b", "(">>)
        /\ \A i \in 1..4 :
              /\ presentations[i].text_edit.range = request[1].range
              /\ presentations[i].text_edit.new_text = presentations[i].label

\* A call for a color that is not opaque, with a target range that is not the
\* range of the color.
C20_Witness ==
    /\ Presented
    /\ request[1].color.color.alpha < Unit
    /\ request[1].range # request[1].color.range
    /\ Len(presentations) = 4

EndsWith(text, suffix) ==
    Len(text) >= Len(suffix)
        /\ SubSeq(text, Len(text) - Len(suffix) + 1, Len(text)) = suffix

\* The alpha of the color of the call, as a multiple of 1 / Unit.
RequestAlpha == request[1].color.color.alpha

\* " / A%)" with A = alpha * 100 rounded half away from zero, for the alpha
\* of the call.
PercentOfRequestAlpha == <<" ", "/", " ">> \o Decimal(Round(100 * RequestAlpha, Unit)) \o <<"%", ")">>

\* C21 as stated: for a color with alpha below 1 the RGB, HSL and HWB forms
\* end with ` / A%` where A is the alpha times 100, rounded, and the hex form
\* has 8 digits; for alpha 1 no form has a suffix and the hex form has 6
\* digits.
C21_AlphaSuffixFollowsInputAlpha ==
    Presented =>
        IF RequestAlpha < Unit
        THEN /\ \A i \in {1, 3, 4} : EndsWith(presentations[i].label, PercentOfRequestAlpha)
             /\ Len(presentations[2].label) = 1 + 8
        ELSE /\ \A i \in {1, 3, 4} : ~Contains(presentations[i].label, <<"/">>)
             /\ Len(presentations[2].label) = 1 + 6

\* The four components of a color as 8-bit integers.
Rgba8(color) == <<ToU8(color.red), ToU8(color.green), ToU8(color.blue), ToU8(color.alpha)>>

\* C22: the parser accepts the hex presentation, and the color it yields has
\* the 8-bit components of the color of the call, each rounded to 8 bits.
C22_HexPresentationRoundTrips ==
    Presented =>
        /\ ParseColor(presentations[2].label).ok
        /\ Rgba8(ParseColor(presentations[2].label).color) = Rgba8(request[1].color.color)

\* A call for a color with four different 8-bit components, none of them a
\* multiple of 1/255 before rounding, whose hex form has 8 digits.
C22_Witness ==
    /\ Presented
    /\ Len(presentations[2].label) = 1 + 8
    /\ Cardinality(SeqRange(Rgba8(request[1].color.color))) = 4
    /\ request[1].color.color.red = 683
    /\ request[1].color.color.alpha % 4 # 0
    /\ ParseColor(presentations[2].label).ok

(***************************************************************************)
(* Further claims about the document store, checked under Spec             *)
(***************************************************************************)
\* C23: with every call run on its own, the entry of a URI after a call is
\* either the whole entry from before the call, or the document of the call
\* with the index and the tree built from that document's text; a new
\* document never stands with the old index or the old tree.
C23_OldTripleOrNewTriple ==
    \A uri \in DOMAIN documents :
        \/ /\ uri \in DOMAIN last_call.before
           /\ documents[uri] = last_call.before[uri]
        \/ /\ IsGet
           /\ documents[uri].document = last_call.arg
           /\ documents[uri].line_index = LineIndexNew(last_call.arg.text)
           /\ documents[uri].css_tree = ParseCss(last_call.arg.text)

\* An update that changed the document, the index and the tree of an entry.
C23_Witness ==
    /\ OtherVersionHit
    /\ documents[last_call.arg.uri].document # last_call.before[last_call.arg.uri].document
    /\ documents[last_call.arg.uri].line_index
          # last_call.before[last_call.arg.uri].line_index
    /\ documents[last_call.arg.uri].css_tree # last_call.before[last_call.arg.uri].css_tree

\* The URI the last call was made for.
CalledUri == IF IsRemove THEN last_call.arg ELSE last_call.arg.uri

\* C24: nothing is evicted but by remove.  The cached URIs are the URIs
\* accessed since their last removal, and a call leaves every entry of
\* another URI in the cache as it was.
C24_NoAutomaticEviction ==
    /\ DOMAIN documents = accessed
    /\ calls > 0 =>
          \A uri \in DOMAIN last_call.before \ {CalledUri} :
              /\ uri \in DOMAIN documents
              /\ documents[uri] = last_call.before[uri]

\* After MaxCalls calls, the last a first access, both URIs are cached: one
\* entry has stayed through a call for the other URI.
C24_Witness ==
    /\ calls = MaxCalls
    /\ FirstAccess
    /\ last_call.before # <<>>
    /\ accessed = Uris

(***************************************************************************)
(* Claims about single steps of the scanner, checked under FoldSpec        *)
(***************************************************************************)
\* The 1-based indices of the "{" among the first n characters of text that
\* no "}" among them has matched, oldest first.
RECURSIVE OpenBraces(_, _)
OpenBraces(text, n) ==
    IF n = 0 THEN <<>>
    ELSE LET before == OpenBraces(text, n - 1)
         IN  CASE text[n] = "{" -> Append(before, n)
               [] text[n] = "}" -> IF before = <<>> THEN <<>> ELSE Front(before)
               [] OTHER -> before

\* The scanner is about to read the character c.
AboutToRead(c) == pc = "scan" /\ offset < Len(source) /\ source[offset + 1] = c

\* The scanner has just read the character c as a token of its own.
JustRead(c) == pc = "scan" /\ offset > 0 /\ source[offset] = c

C25_WitnessEmptyStack ==
    /\ JustRead("}")
    /\ OpenBraces(source, offset - 1) = <<>>
    /\ comment_stack # <<>>
    /\ folding_ranges # <<>>

\* The character after the one the scanner is about to read is c.
FollowedBy(c) == offset + 2 <= Len(source) /\ source[offset + 2] = c

\* The scan of the text `text` has ended with `comments` as its comment stack.
ScannedWith(text, comments) ==
    (source = text /\ pc \in {"unclosed", "done"}) => scan_end.comment_stack = comments

\* C26: a "/" followed by "*" is read with it as one token that pushes the
\* current line on the comment stack, and a "*" followed by "/" is read with
\* it as one token that pops the comment stack; the second character is not
\* read again, so "/*/" leaves a comment open and "/**/*" leaves none.  A "/"
\* or "*" without its partner is read alone and changes no stack.
C26_TwoCharacterTokens ==
    /\ [][(AboutToRead("/") \/ AboutToRead("*")) =>
             /\ brace_stack' = brace_stack
             /\ IF AboutToRead("/") /\ FollowedBy("*")
                THEN /\ offset' = offset + 2
                     /\ comment_stack'
                            = Append(comment_stack, LineOfIndex(source, offset + 1))
                     /\ region_stack' = region_stack
                ELSE IF AboutToRead("*") /\ FollowedBy("/")
                THEN /\ offset' = offset + 2
                     /\ comment_stack' = IF comment_stack = <<>> THEN <<>>
                                         ELSE Front(comment_stack)
                ELSE /\ offset' = offset + 1
                     /\ comment_stack' = comment_stack
                     /\ region_stack' = region_stack]_vars
    /\ [](ScannedWith(<<"/", "*", "/">>, <<0>>))
    /\ [](ScannedWith(<<"/", "*", "*", "/", "*">>, <<>>))

\* The scanner has read "/*/" and stands after it with one comment open.
C26_Witness ==
    /\ pc = "scan"
    /\ offset >= 3
    /\ SubSeq(source, offset - 2, offset) = <<"/", "*", "/">>
    /\ comment_stack = <<LineOfIndex(source, offset - 2)>>
    /\ open_at.comment = <<offset - 3>>

\* The scanner has read "*/*" and stands after it with no comment open: the
\* "*/" closed the one that was open.
C26_WitnessClose ==
    /\ pc = "scan"
    /\ offset >= 5
    /\ SubSeq(source, offset - 2, offset) = <<"*", "/", "*">>
    /\ closed.n = 1
    /\ closed.at = offset - 1
    /\ comment_stack = <<>>

(***************************************************************************)
(* Claims about the end of input and the order, checked under FoldSpec     *)
(***************************************************************************)
\* The number of "\n" in the text.
LineBreaks(text) == Cardinality({i \in 1..Len(text) : text[i] = "\n"})

\* C27: the end line of the ranges made at the end of input is the number of
\* "\n" in the text, less one when the text ends with "\n"; it is 0 for the
\* empty text, and it is never the empty line after a final "\n".
C27_EndLineIsLastContentLine ==
    pc \in {"unclosed", "done"} =>
        LET breaks == LineBreaks(source)
            final == source # <<>> /\ source[Len(source)] = "\n"
        IN  /\ total_lines = IF final /\ breaks >= 1 THEN breaks - 1 ELSE breaks
            /\ source = <<>> => total_lines = 0
            /\ \A i \in 1..Len(TrailingRanges) :
                  /\ TrailingRanges[i].end_line = total_lines
                  /\ final => TrailingRanges[i].end_line < breaks

\* A text of three line breaks that ends with one and leaves a construct
\* open: its range ends on line 2.
C27_Witness ==
    /\ Done
    /\ LineBreaks(source) = 3
    /\ source[Len(source)] = "\n"
    /\ TrailingRanges # <<>>
    /\ Last(folding_ranges).end_line = 2

\* A text of line breaks that does not end with one and leaves a construct
\* open.
C27_WitnessNoFinalBreak ==
    /\ Done
    /\ LineBreaks(source) = 2
    /\ source[Len(source)] # "\n"
    /\ TrailingRanges # <<>>
    /\ Last(folding_ranges).end_line = 2

Reverse(seq) == [i \in 1..Len(seq) |-> seq[Len(seq) + 1 - i]]

C28_WitnessInnermost ==
    /\ Done
    /\ scan_end.folding_ranges = <<>>
    /\ Len(folding_ranges) = 2
    /\ folding_ranges[1].kind = "None"
    /\ folding_ranges[2].kind = "None"
    /\ folding_ranges[1].start_line > folding_ranges[2].start_line

\* The range of a closed block comes before the range, made at the end of
\* input, of an unmatched one.
C28_WitnessClosed ==
    /\ Done
    /\ Len(scan_end.folding_ranges) = 1
    /\ Len(folding_ranges) = 2
    /\ scan_end.brace_stack # <<>>

(***************************************************************************)
(* Claims about nesting and about every range, checked under FoldSpec      *)
(***************************************************************************)
\* The 1-based indices of the "/*" before index `upto` that no "*/" before
\* it has matched, oldest first, reading the text from index i on in tokens,
\* with `open` found so far.
RECURSIVE OpenComments(_, _, _, _)
OpenComments(text, i, upto, open) ==
    IF i >= upto THEN open
    ELSE IF text[i] = "/" /\ i < Len(text) /\ text[i + 1] = "*"
    THEN OpenComments(text, i + 2, upto, Append(open, i))
    ELSE IF text[i] = "*" /\ i < Len(text) /\ text[i + 1] = "/"
    THEN OpenComments(text, i + 2, upto, IF open = <<>> THEN <<>> ELSE Front(open))
    ELSE OpenComments(text, i + 1, upto, open)

\* C29: braces and comments nest independently and nothing is skipped inside
\* a comment.  A "{" pushes the brace stack and a "}" pops it whatever the
\* comment stack holds, a "/*" pushes the comment stack also when a comment
\* is open, and a "*/" pops the line of the most recent unmatched "/*"; none
\* of these steps touches the stack of the other kind.
C29_KindsNestIndependently ==
    [][LET line == LineOfIndex(source, offset + 1)
       IN  /\ AboutToRead("{") =>
                 /\ brace_stack' = Append(brace_stack, line)
                 /\ comment_stack' = comment_stack
                 /\ region_stack' = region_stack
           /\ (AboutToRead("}") /\ brace_stack # <<>>) =>
                 /\ brace_stack' = Front(brace_stack)
                 /\ comment_stack' = comment_stack
                 /\ region_stack' = region_stack
           /\ (AboutToRead("/") /\ FollowedBy("*")) =>
                 /\ comment_stack' = Append(comment_stack, line)
                 /\ brace_stack' = brace_stack
                 /\ region_stack' = region_stack
           /\ (AboutToRead("*") /\ FollowedBy("/")) =>
                 LET open == OpenComments(source, 1, offset + 1, <<>>)
                 IN  /\ Len(comment_stack) = Len(open)
                     /\ brace_stack' = brace_stack
                     /\ open # <<>> =>
                           /\ Last(comment_stack) = LineOfIndex(source, Last(open))
                           /\ comment_stack' = Front(comment_stack)]_vars

\* A "}" inside an open comment has just closed a "{" that was opened before
\* the comment, on another line, and the block's range was emitted.
C29_Witness ==
    /\ JustRead("}")
    /\ comment_stack # <<>>
    /\ Len(OpenBraces(source, offset - 1)) = 1
    /\ OpenBraces(source, offset - 1)[1] < Last(open_at.comment) + 1
    /\ brace_stack = <<>>
    /\ folding_ranges # <<>>
    /\ Last(folding_ranges).kind = "None"

\* A "*/" has just closed the inner of two open comments that started on
\* different lines.
C29_WitnessNestedComment ==
    /\ JustClosed
    /\ Len(comment_stack) = 1
    /\ closed.start_line # comment_stack[1]

\* C30: every range in the list, of any kind, made at a closing token or at
\* the end of input, starts on a line from 0 on, ends on a later line, and
\* ends no later than the last line with content; no Region range starts and
\* ends on one line.
C30_RangesSpanLinesWithinText ==
    \A i \in 1..Len(folding_ranges) :
        /\ folding_ranges[i].kind \in {"None", "Comment", "Region"}
        /\ 0 <= folding_ranges[i].start_line
        /\ folding_ranges[i].start_line < folding_ranges[i].end_line
        /\ folding_ranges[i].end_line <= LastContentLine(source)

\* A result with a Region range made at an "#endregion" comment and a range
\* made at the end of input.
C30_Witness ==
    /\ Done
    /\ \E i \in 1..Len(scan_end.folding_ranges) : folding_ranges[i].kind = "Region"
    /\ TrailingRanges # <<>>

\* An "#endregion" comment was closed on the line on which a region was
\* opened, and no range was made for the two.
C30_WitnessSameLine ==
    /\ Done
    /\ closed.n = 2
    /\ closed.regions_before = <<closed.end_line>>
    /\ Contains(LineText(source, closed.end_line), EndRegionMarker)
    /\ OfKind(folding_ranges, "Region") = <<>>

(***************************************************************************)
(* Claims about the classification of comments, checked under FoldSpec     *)
(***************************************************************************)
\* The text of the comment closed last, from its "/*" to its "*/".
ClosedOwnText ==
    SubSeq(source, Last(OpenComments(source, 1, closed.at - 1, <<>>)), closed.at)

C31_WitnessBoth ==
    /\ JustClosed
    /\ Contains(ClosedOwnText, EndRegionMarker \o RegionMarker)
    /\ region_stack = <<closed.start_line>>

\* C32: the close of a comment classified as "#endregion" adds no Comment
\* range, whatever lines it spans and whether or not a region is open; and
\* the step that reads "*/" with no "/*" unmatched moves past the two
\* characters and leaves the ranges and the three stacks as they are.
C32_EndRegionAndStrayClose ==
    /\ [](ClosedRegionCloser =>
             /\ OfKind(ClosedEmitted, "Comment") = <<>>
             /\ OfKind(folding_ranges, "Comment") = OfKind(closed.ranges_before, "Comment"))
    /\ [][(/\ AboutToRead("*")
           /\ FollowedBy("/")
           /\ OpenComments(source, 1, offset + 1, <<>>) = <<>>) =>
             /\ offset' = offset + 2
             /\ folding_ranges' = folding_ranges
             /\ region_stack' = region_stack
             /\ comment_stack' = <<>>
             /\ brace_stack' = brace_stack]_vars

\* An "#endregion" comment of several lines has just closed with no region
\* open and nothing was added to the ranges.
C32_Witness ==
    /\ ClosedRegionCloser
    /\ closed.start_line < closed.end_line
    /\ closed.regions_before = <<>>
    /\ ClosedEmitted = <<>>
    /\ region_stack = <<>>

\* A "*/" has just been read with no comment open, on a later line than the
\* first and after a range was made.
C32_WitnessStray ==
    /\ JustRead("/")
    /\ offset >= 2
    /\ source[offset - 1] = "*"
    /\ comment_stack = <<>>
    /\ closed.at # offset
    /\ LineOfIndex(source, offset) > 0
    /\ folding_ranges # <<>>

(***************************************************************************)
(* Termination of the scanner, checked under FoldLiveSpec                  *)
(***************************************************************************)
\* The number of "/*" tokens of the text from index i on, read in tokens.
RECURSIVE CommentOpens(_, _)
CommentOpens(text, i) ==
    IF i > Len(text) THEN 0
    ELSE IF text[i] = "/" /\ i < Len(text) /\ text[i + 1] = "*"
    THEN 1 + CommentOpens(text, i + 2)
    ELSE IF text[i] = "*" /\ i < Len(text) /\ text[i + 1] = "/"
    THEN CommentOpens(text, i + 2)
    ELSE CommentOpens(text, i + 1)

\* C33: the function returns for every text.  A step of the scan moves the
\* offset forward, so no character is read twice, and the scan ends when the
\* offset reaches the end of the text; at the return the three stacks are
\* empty, and the ranges are no more than the "{" and the "/*" tokens of the
\* text.
C33_TerminatesWithEmptyStacks ==
    /\ <>Done
    /\ [][(pc = "scan" /\ pc' = "scan") =>
             /\ offset' > offset
             /\ offset' <= Len(source)]_vars
    /\ [](Done =>
             /\ offset = Len(source)
             /\ brace_stack = <<>>
             /\ comment_stack = <<>>
             /\ region_stack = <<>>
             /\ Len(folding_ranges)
                    <= Cardinality({i \in 1..Len(source) : source[i] = "{"})
                           + CommentOpens(source, 1))

\* The function has returned for a text that left a brace, a comment and a
\* region open, with as many ranges as the text has "{" and "/*" tokens.
C33_Witness ==
    /\ Done
    /\ scan_end.brace_stack # <<>>
    /\ scan_end.comment_stack # <<>>
    /\ folding_ranges # <<>>
    /\ Len(folding_ranges)
           = Cardinality({i \in 1..Len(source) : source[i] = "{"})
                 + CommentOpens(source, 1)


(***************************************************************************)
(* The language service's features and the cache                           *)
(***************************************************************************)
IsFeature == last_call.op \in {"get_document_colors", "get_folding_ranges"}

\* What the feature of the last request yields on the text `text` alone.
FeatureOf(text) ==
    IF last_call.op = "get_document_colors"
    THEN FindDocumentColors(CHOOSE css \in DeclarationSheets : css.text = text,
                            LineIndexNew(text))
    ELSE ComputeFoldingRanges(text)

\* The last request found its URI cached with the version it carries.
CachedSameVersion ==
    /\ IsFeature
    /\ last_call.arg.uri \in DOMAIN last_call.before
    /\ last_call.before[last_call.arg.uri].document.version = last_call.arg.version

CachedOtherVersion ==
    /\ IsFeature
    /\ last_call.arg.uri \in DOMAIN last_call.before
    /\ last_call.before[last_call.arg.uri].document.version # last_call.arg.version

CachedText == last_call.before[last_call.arg.uri].document.text

\* C34: a feature request whose document carries the cached version yields
\* the result of the cached text, whatever text the request carries; a
\* request with another version (or for a URI not cached) yields the result
\* of the text it carries.
C34_FeaturesReadTheCacheEntry ==
    IsFeature =>
        returned.value =
            FeatureOf(IF CachedSameVersion THEN CachedText ELSE last_call.arg.text)

\* Folding ranges asked with the cached version and a text that folds
\* differently: the ranges are not those of the request's text.
C34_Witness ==
    /\ last_call.op = "get_folding_ranges"
    /\ CachedSameVersion
    /\ CachedText # last_call.arg.text
    /\ returned.value # ComputeFoldingRanges(last_call.arg.text)

\* The same for document colors.
C34_WitnessColors ==
    /\ last_call.op = "get_document_colors"
    /\ CachedSameVersion
    /\ returned.value # FeatureOf(last_call.arg.text)
    /\ returned.value # <<>>

\* A request with another version: the result is that of the new text and
\* not that of the cached one.
C34_WitnessOtherVersion ==
    /\ CachedOtherVersion
    /\ returned.value = FeatureOf(last_call.arg.text)
    /\ returned.value # FeatureOf(CachedText)


(***************************************************************************)
(* Removal and the next access                                             *)
(***************************************************************************)
\* C35: the get_or_update_document that follows remove(uri) for that URI
\* (no access to it since the removal) builds the entry from the document it
\* is given, index and tree included, and returns that entry, whatever was
\* stored under the URI before the removal.
C35_GetAfterRemoveBuildsAnew ==
    [][(/\ calls' = calls + 1
        /\ last_call'.op = "get_or_update_document"
        /\ last_call'.arg.uri \in DOMAIN removed
        /\ last_call'.arg.uri \notin accessed)
       => /\ documents'[last_call'.arg.uri] = BuiltEntry(last_call'.arg)
          /\ returned' = [kind |-> "entry", key |-> last_call'.arg.uri]
          /\ rebuilds' = rebuilds + 1]_vars

\* A get after a removal with the version the removed entry had and another
\* text: the entry holds the text of the call.
C35_Witness ==
    /\ FirstAccess
    /\ last_call.arg.uri \in DOMAIN removed
    /\ removed[last_call.arg.uri] # <<>>
    /\ removed[last_call.arg.uri][1].document.version = last_call.arg.version
    /\ removed[last_call.arg.uri][1].document.text # last_call.arg.text
    /\ ReturnedEntry.document.text = last_call.arg.text


(***************************************************************************)
(* The alpha of the four presentations                                     *)
(***************************************************************************)
\* " / A%)" for a percentage A.
PercentSuffix(A) == <<" ", "/", " ">> \o Decimal(A) \o <<"%", ")">>

\* C36: in one result either the RGB, HSL and HWB texts all end with the
\* same ` / A%` and the hex text has 8 digits, or none of the three has a
\* suffix and the hex text has 6 digits; the second case is that of an alpha
\* that rounds to 255 as an 8-bit value, the first that of every other alpha.
C36_SameAlphaDecisionInAllForms ==
    Presented =>
        IF ToU8(RequestAlpha) = 255
        THEN /\ \A i \in {1, 3, 4} : ~Contains(presentations[i].label, <<"/">>)
             /\ Len(presentations[2].label) = 1 + 6
        ELSE /\ \E A \in 0..100 :
                    \A i \in {1, 3, 4} : EndsWith(presentations[i].label, PercentSuffix(A))
             /\ Len(presentations[2].label) = 1 + 8

\* An alpha below 1 that rounds to 255: no form has a suffix.
C36_Witness ==
    /\ Presented
    /\ RequestAlpha < Unit
    /\ ToU8(RequestAlpha) = 255
    /\ \A i \in {1, 3, 4} : ~Contains(presentations[i].label, <<"/">>)
    /\ Len(presentations[2].label) = 1 + 6

\* An alpha that rounds to 254: the three forms end with ` / 100%` and the
\* hex text has 8 digits.
C36_WitnessSuffix ==
    /\ Presented
    /\ ToU8(RequestAlpha) = 254
    /\ \A i \in {1, 3, 4} : EndsWith(presentations[i].label, PercentSuffix(100))
    /\ Len(presentations[2].label) = 1 + 8


(***************************************************************************)
(* The line starts of the scanner                                          *)
(***************************************************************************)
\* C37: the line starts of the text are 0 and then, in ascending order, the
\* offset just after each "\n" and nothing else (a "\r" starts no line), so
\* they start at 0 and increase strictly; the line number of the character
\* the scanner is at, at offset o, is the greatest index whose line start is
\* not after o.
C37_LineStartsAndLineNumbers ==
    /\ line_starts[1] = 0
    /\ \A i \in 1..(Len(line_starts) - 1) : line_starts[i] < line_starts[i + 1]
    /\ {line_starts[i] : i \in 2..Len(line_starts)}
           = {j \in 1..Len(source) : source[j] = "\n"}
    /\ (pc = "scan" /\ offset < Len(source)) =>
           LET line == LineNumber(line_starts, offset)
           IN  /\ line_starts[line + 1] <= offset
               /\ line + 2 <= Len(line_starts) => line_starts[line + 2] > offset

\* A finished call on a text with a "\r" on its first line and a block that
\* opens after it and closes on the second line.
C37_Witness ==
    /\ Done
    /\ \E j \in 1..Len(source) : source[j] = "\r" /\ LineNumber(line_starts, j - 1) = 0
    /\ Len(line_starts) = 2
    /\ folding_ranges = <<FoldingRange(0, 1, "None")>>

====
